---- MODULE Spec2Model ----
(***************************************************************************)
(* A model of sturdy's repository locker (package executor: locker,        *)
(* mutexLock, fileLock), of its in-memory queue (package queue:            *)
(* InMemoryQueue), of the workspace store (package db: memory) with the    *)
(* resolver that opens a workspace on a view, of the handling of merged    *)
(* GitHub pull requests, and of the suggestions service, written from the  *)
(* Go sources.                                                             *)
(*                                                                         *)
(* Several specifications share the module: SpecLocker runs goroutines     *)
(* through locker.Get on arbitrary id strings, SpecLock runs them through  *)
(* Get and the lock methods next to the external file-sync agent,          *)
(* SpecQueue runs publishers, subscribers and consumers of the queue,      *)
(* SpecMerge runs webhook handlers through mergePullRequest next to        *)
(* EnterpriseService.Pull, SpecWorkspaces runs calls on the workspace      *)
(* store and OpenWorkspaceOnView, SpecCreate runs Service.Create next to   *)
(* the snapshotter, SpecRecord runs Service.RecordActivity and             *)
(* Service.Dismiss on a suggestion, SpecHunks runs Service.Diffs,          *)
(* ApplyHunks, DismissHunks and Dismiss next to edits of the suggesting    *)
(* workspace, and SpecEditable runs ApplyHunks, RemovePatches and          *)
(* PrepareBranchForPush on workspaces with and without a view or a latest  *)
(* snapshot, SpecList runs vcs.ListChanges on head logs, SpecPrimary runs  *)
(* primaryPullRequest on lists of pull requests, SpecViewUpdated runs the  *)
(* function of NewViewUpdatedFunc, SpecRemote runs SetRemote, Push,        *)
(* PushTrunk and Pull of the remote service, SpecAllower runs GetAllower   *)
(* on subjects and objects, and SpecPR runs MergePullRequest calls next to *)
(* webhook deliveries through UpdatePullRequestFromGitHub.                 *)
(***************************************************************************)
EXTENDS Integers, Sequences, FiniteSets, TLC

VARIABLES
    \* ---- locker (package executor) ----
    locks,        \* locker.locks: key -> lock object id
    locksGuard,   \* locker.locksGuard: the goroutine holding it, or NoG
    objs,         \* the lock objects ever allocated: id -> state of the object
    agent,        \* the locks the file-sync agent holds: lock file -> "SH"/"EX"
    missing,      \* the lock files whose directory does not exist
    gpc,          \* each goroutine's position
    gtarget,      \* the (codebaseID, viewID) a goroutine passed to Get
    gkey,         \* the key Get computed for it
    glock,        \* the lock object Get returned to it, or NoObj
    gmode,        \* "W": Lock/Unlock, "R": RLock/RUnlock
    lastCall,     \* the fileLock method that returned last: who called it,
                  \* what its flock call returned and what it returned itself
    \* ---- InMemoryQueue (package queue) ----
    qsync,        \* q.sync
    chans,        \* q.chans: queue name -> the channels subscribed, in order
    guardW,       \* q.chansGuard: the subscriber holding or awaiting the write lock
    guardR,       \* q.chansGuard: the Publish calls holding the read lock
    chcap,        \* each subscriber's channel: its capacity
    chbuf,        \* each subscriber's channel: the messages buffered in it
    spc,          \* each subscriber's position in Subscribe
    sname,        \* the queue name a subscriber passed to Subscribe
    received,     \* the messages each consumer has received from its channel
    acked,        \* the messages whose ack channel is closed
    ppc,          \* each publisher's position in Publish
    pname,        \* the queue name of its Publish call
    pmsg,         \* the message of its Publish call
    psnap,        \* chans[name] as that call read it
    psend,        \* the call's goroutines, one per channel read
    pret,         \* what its last Publish call returned
    npub,         \* the number of Publish calls made
    pctx,         \* whether the context of its Publish call is cancelled
    plog,         \* the Publish calls made, in order: who called, on which
                  \* name, the channels read and what the call returned
    \* ---- the workspace store (package db: memory) and the views ----
    workspaces,   \* memory.workspaces: the workspace records, in order
    views,        \* the view records: view id -> record
    wlast,        \* the last call on the store or the resolver, and its result
    \* ---- GitHub pull request merge, remote pull ----
    changes,      \* the Change records created
    trunkHead,    \* per codebase: the commit refs/heads/sturdytrunk is at
    remoteHead,   \* per codebase: the commit the remote's tracked branch is at
    prState,      \* pr.State as stored
    merges,       \* each caller of mergePullRequest: its position, what the
                  \* call returned, pr.State as passed, shouldPull, whether its
                  \* fetch moved sturdytrunk, the Change it created
    nmerge,       \* the number of mergePullRequest calls made
    pulls,        \* the caller of EnterpriseService.Pull
    \* ---- the suggestion service ----
    snapshots,    \* the snapshot records
    suggestions,  \* the suggestions as persisted, in order of creation
    notifications,\* per suggestion: the new-suggestion notifications sent
    records,      \* each caller of RecordActivity: its position, its workspace
                  \* argument, its copy of the suggestion, what the call
                  \* returned, whether it sent the notification, what became
                  \* of its event, whether it changed the persisted suggestion
    nrecord,      \* the number of RecordActivity calls made
    interleave,   \* whether calls on the suggestion service interleave
    created,      \* the last Create call: its target, the target's latest
                  \* snapshot, what it returned, the suggestions before it
    \* ---- the hunks of a suggestion ----
    workdir,      \* the working tree of the target workspace's view
    sdiff,        \* the hunks the suggesting workspace's latest snapshot
                  \* differs by from the fork-time snapshot
    hlast,        \* the last call on the hunks: its number, its arguments,
                  \* the call that failed in it, what it returned, the path it
                  \* took, the repository steps it ran, the diffs it computed
    truth,        \* the hunks ApplyHunks has applied and DismissHunks dismissed
    \* ---- the GitHub pull request of a workspace, the codebase's remote,
    \* ---- the view-updated function, and calls of functions ----
    aclState,     \* what the allower reads: whether the codebase is public,
                  \* the files its ACL policy lists for the user by email and
                  \* by id (or no policy), whether the user exists
    prImporting,  \* pr.Importing as stored
    apis,         \* each caller of Service.MergePullRequest: its position,
                  \* previousState, what GitHub answered, what the call returned
    remotes,      \* the remote stored for each codebase that has one
    vqueue,       \* the snapshot jobs enqueued, in order
    vevents,      \* the codebase events published, in order
    flast         \* the last call of a function: its number, its arguments,
                  \* what it did in order and what it returned

lockVars == <<locks, locksGuard, objs, agent, missing, gpc, gtarget, gkey,
              glock, gmode, lastCall>>

queueVars == <<qsync, chans, guardW, guardR, chcap, chbuf, spc, sname, received,
               acked, ppc, pname, pmsg, psnap, psend, pret, npub, pctx, plog>>

mergeVars == <<changes, trunkHead, remoteHead, prState, merges, nmerge, pulls>>

suggestVars == <<snapshots, suggestions, notifications, records, nrecord,
                 interleave, created>>

hunkVars == <<workdir, sdiff, hlast, truth>>

lateVars == <<aclState, prImporting, apis, remotes, vqueue, vevents, flast>>

storeVars == <<workspaces, views, wlast, mergeVars, suggestVars, hunkVars, lateVars>>

vars == <<lockVars, queueVars, storeVars>>

-----------------------------------------------------------------------------
(* Bounds of the model. *)

NumGoroutines == 2

NumSubscribers == 2

NumPublishers == 2

\* The number of Publish calls of a run.
MaxPublishes == 2

\* The largest capacity of a subscriber's channel; 0 is an unbuffered channel.
MaxChanCap == 1

\* The goroutines handling the webhook of one merged pull request.
NumHandlers == 2

\* The number of mergePullRequest calls of a run.
MaxMergeCalls == 3

\* The number of calls on the workspace store and the view resolver of a run.
MaxStoreCalls == 3

\* The goroutines calling RecordActivity.
NumRecorders == 2

\* The number of RecordActivity calls of a run.
MaxRecordCalls == 3

\* The number of snapshots of a run.
MaxSnapshots == 3

\* The number of calls on the hunks of a suggestion of a run.
MaxHunkCalls == 2

\* The longest of the short logs ListChanges is called on.
MaxLogLen == 3

\* The calls made of a function, in the runs of functions.
MaxListCalls == 2

\* The longest list of pull requests primaryPullRequest is called on.
MaxPRs == 3

\* The times a pull request can have been created at.
MaxCreatedAt == 2

\* The calls made of the view-updated function.
MaxViewCalls == 3

\* The calls of Push, PushTrunk and Pull of a run.
MaxRemoteCalls == 2

\* The calls of MergePullRequest and the webhook deliveries of a run.
MaxPRCalls == 2

\* The calls of GetAllower of a run.
MaxAllowerCalls == 2

Goroutines == 1..NumGoroutines
NoG == 0
\* A lock object is named by the key it was allocated for and the number of
\* objects allocated for that key up to then: two allocations for one key
\* are two objects.
NoObj == <<>>

\* The nil *string of Get's viewID parameter.
Nil == "<nil>"

\* Identifiers the callers pass.  They are arbitrary strings in the code; the
\* locker is run on ids that contain "/" or are the word "trunk" as well.
CodebaseIDs == {"c", "c/v"}
ViewIDs == {"v", "trunk", "v/trunk"}
Targets == [codebaseID : CodebaseIDs, viewID : ViewIDs \cup {Nil}]

\* The repositories the goroutines of SpecLock lock: the trunk of codebase c
\* and its view v.
LockTargets == [codebaseID : {"c"}, viewID : {"v", Nil}]

-----------------------------------------------------------------------------
(* locker.key and the lock file of a view. *)

lockFileName == ".git/sturdy.lock"

key(codebaseID, viewID) ==
    IF viewID = Nil
    THEN codebaseID \o "/trunk"
    ELSE codebaseID \o "/" \o viewID

\* provider.ViewPath: <basepath>/<codebaseID>/<viewID>
ViewPath(codebaseID, viewID) == codebaseID \o "/" \o viewID

\* filepath.Join(l.provider.ViewPath(codebaseID, *viewID), lockFileName)
lockFile(codebaseID, viewID) == ViewPath(codebaseID, viewID) \o "/" \o lockFileName

LockFiles == {lockFile(t.codebaseID, t.viewID) : t \in {u \in LockTargets : u.viewID # Nil}}

-----------------------------------------------------------------------------
(* Errors. "nil" is the nil error. An *os.PathError wraps the errno of the *)
(* failed open(2); flock(2) fails with a bare errno.                       *)

ErrNil == "nil"
OpenErrors == {"PathError:ENOENT", "PathError:EACCES"}
SyscallErrors == {"ENOLCK"}

\* errors.Is(err, os.ErrNotExist): unwraps the PathError, ENOENT is ErrNotExist.
IsNotExist(err) == err \in {"PathError:ENOENT", "ENOENT"}

-----------------------------------------------------------------------------
(* The lock objects. *)

\* &mutexLock{&sync.RWMutex{}}
NewMutexLock ==
    [kind |-> "mutexLock", path |-> "",
     w |-> NoG, readers |-> {},
     m |-> NoG, l |-> FALSE, r |-> FALSE, fh |-> FALSE, k |-> "UN"]

\* &fileLock{flock.New(lockFile)}
NewFileLock(path) ==
    [kind |-> "fileLock", path |-> path,
     w |-> NoG, readers |-> {},
     m |-> NoG, l |-> FALSE, r |-> FALSE, fh |-> FALSE, k |-> "UN"]

ObjIds == DOMAIN objs

\* flock(2): locks of different open file descriptions conflict, also within
\* one process; a shared lock is compatible with other shared locks only.
OthersHold(o, modes) ==
    \/ objs[o].path \in DOMAIN agent /\ agent[objs[o].path] \in modes
    \/ \E o2 \in ObjIds \ {o} :
          /\ objs[o2].kind = "fileLock"
          /\ objs[o2].path = objs[o].path
          /\ objs[o2].k \in modes

Compatible(o, flag) ==
    IF flag = "EX" THEN ~OthersHold(o, {"SH", "EX"}) ELSE ~OthersHold(o, {"EX"})

-----------------------------------------------------------------------------
(* Init of the locker: newLocker, no goroutine has called Get yet.  The    *)
(* directory of at most one view may be missing on disk.                   *)

NoTarget == [codebaseID |-> "", viewID |-> Nil]

NoCall == [g |-> NoG, op |-> "", under |-> ErrNil, ret |-> ErrNil]

InitLock ==
    /\ locks = <<>>
    /\ locksGuard = NoG
    /\ objs = <<>>
    /\ agent = <<>>
    /\ missing \in SUBSET {lockFile("c", "v")}
    /\ gpc = [g \in Goroutines |-> "idle"]
    /\ gtarget = [g \in Goroutines |-> NoTarget]
    /\ gkey = [g \in Goroutines |-> ""]
    /\ glock = [g \in Goroutines |-> NoObj]
    /\ gmode = [g \in Goroutines |-> "W"]
    /\ lastCall = NoCall

-----------------------------------------------------------------------------
(* locker.Get *)

\* l.locksGuard.Lock() can return: nobody holds the mutex.
GuardNoMutex == TRUE

GuardAcquirable == locksGuard = NoG

\* key := l.key(codebaseID, viewID); l.locksGuard.Lock()
GetCall(g, t) ==
    /\ gpc[g] = "idle"
    /\ GuardAcquirable
    /\ locksGuard' = g
    /\ gtarget' = [gtarget EXCEPT ![g] = t]
    /\ gkey' = [gkey EXCEPT ![g] = key(t.codebaseID, t.viewID)]
    /\ glock' = [glock EXCEPT ![g] = NoObj]
    /\ gpc' = [gpc EXCEPT ![g] = "get_lookup"]
    /\ UNCHANGED <<locks, objs, agent, missing, gmode, lastCall>>

\* if m, ok := l.locks[key]; ok { return m }   (the deferred Unlock runs)
GetLookup(g) ==
    /\ gpc[g] = "get_lookup"
    /\ IF gkey[g] \in DOMAIN locks
       THEN /\ glock' = [glock EXCEPT ![g] = locks[gkey[g]]]
            /\ locksGuard' = NoG
            /\ gpc' = [gpc EXCEPT ![g] = "got"]
       ELSE /\ gpc' = [gpc EXCEPT ![g] = "get_new"]
            /\ UNCHANGED <<glock, locksGuard>>
    /\ UNCHANGED <<locks, objs, agent, missing, gtarget, gkey, gmode, lastCall>>

\* The object Get allocates for a key it has not seen.
NewLock(t) ==
    IF t.viewID = Nil
    THEN NewMutexLock
    ELSE NewFileLock(lockFile(t.codebaseID, t.viewID))

\* l.locks[key] = mutex / lock; return it   (the deferred Unlock runs)
GetInsert(g) ==
    /\ gpc[g] = "get_new"
    /\ LET id == <<gkey[g], Cardinality({o \in ObjIds : o[1] = gkey[g]}) + 1>>
       IN /\ objs' = [o \in ObjIds \cup {id} |->
                         IF o = id THEN NewLock(gtarget[g]) ELSE objs[o]]
          /\ locks' = [k \in DOMAIN locks \cup {gkey[g]} |->
                         IF k = gkey[g] THEN id ELSE locks[k]]
          /\ glock' = [glock EXCEPT ![g] = id]
    /\ locksGuard' = NoG
    /\ gpc' = [gpc EXCEPT ![g] = "got"]
    /\ UNCHANGED <<agent, missing, gtarget, gkey, gmode, lastCall>>

-----------------------------------------------------------------------------
(* mutexLock: a sync.RWMutex.  Lock first excludes other writers and new   *)
(* readers, then waits for the readers that are in; RLock waits while a    *)
(* writer holds the mutex or is waiting for it.                            *)

Obj(g) == objs[glock[g]]

\* The caller is done with the lock it got and forgets it.
Leave(g) ==
    /\ gpc' = [gpc EXCEPT ![g] = "idle"]
    /\ gtarget' = [gtarget EXCEPT ![g] = NoTarget]
    /\ gkey' = [gkey EXCEPT ![g] = ""]
    /\ glock' = [glock EXCEPT ![g] = NoObj]
    /\ gmode' = [gmode EXCEPT ![g] = "W"]

SetObj(g, new) == objs' = [objs EXCEPT ![glock[g]] = new]

\* ml.mu.Lock(), first half: the writer announces itself.
MutexLockAnnounce(g) ==
    /\ gpc[g] = "got"
    /\ Obj(g).kind = "mutexLock"
    /\ Obj(g).w = NoG
    /\ SetObj(g, [Obj(g) EXCEPT !.w = g])
    /\ gmode' = [gmode EXCEPT ![g] = "W"]
    /\ gpc' = [gpc EXCEPT ![g] = "mu_wait"]
    /\ UNCHANGED <<locks, locksGuard, agent, missing, gtarget, gkey, glock,
                   lastCall>>

\* ml.mu.Lock(), second half: the readers have left; return nil.
MutexLockAcquire(g) ==
    /\ gpc[g] = "mu_wait"
    /\ Obj(g).readers = {}
    /\ gpc' = [gpc EXCEPT ![g] = "held"]
    /\ UNCHANGED <<locks, locksGuard, objs, agent, missing, gtarget, gkey,
                   glock, gmode, lastCall>>

\* ml.mu.RLock(); return nil
MutexRLock(g) ==
    /\ gpc[g] = "got"
    /\ Obj(g).kind = "mutexLock"
    /\ Obj(g).w = NoG
    /\ SetObj(g, [Obj(g) EXCEPT !.readers = @ \cup {g}])
    /\ gmode' = [gmode EXCEPT ![g] = "R"]
    /\ gpc' = [gpc EXCEPT ![g] = "held"]
    /\ UNCHANGED <<locks, locksGuard, agent, missing, gtarget, gkey, glock,
                   lastCall>>

\* ml.mu.Unlock(); return nil
MutexUnlock(g) ==
    /\ gpc[g] = "held"
    /\ Obj(g).kind = "mutexLock"
    /\ gmode[g] = "W"
    /\ SetObj(g, [Obj(g) EXCEPT !.w = NoG])
    /\ Leave(g)
    /\ UNCHANGED <<locks, locksGuard, agent, missing, lastCall>>

\* ml.mu.RUnlock(); return nil
MutexRUnlock(g) ==
    /\ gpc[g] = "held"
    /\ Obj(g).kind = "mutexLock"
    /\ gmode[g] = "R"
    /\ SetObj(g, [Obj(g) EXCEPT !.readers = @ \ {g}])
    /\ Leave(g)
    /\ UNCHANGED <<locks, locksGuard, agent, missing, lastCall>>

-----------------------------------------------------------------------------
(* gofrs/flock, as fileLock uses it.  One Flock value holds one file       *)
(* handle: fh (open or nil), the flags l and r it sets after a successful  *)
(* exclusive or shared flock(2), and the mutex m its methods run under.    *)
(* k is the lock the kernel holds for the handle.                          *)

Flag(mode) == IF mode = "W" THEN "EX" ELSE "SH"

Locked(o, flag) == IF flag = "EX" THEN objs[o].l ELSE objs[o].r

\* The method's return value ends the call: nil enters the critical section,
\* an error makes the caller give up.
Return(g, op, under, ret) ==
    lastCall' = [g |-> g, op |-> op, under |-> under, ret |-> ret]

\* fileLock.Lock without the ErrNotExist case.
fileLock_Lock_Strict(err) == err

\* fileLock.Lock: the error of fl.lock.Lock() is dropped when it is ErrNotExist.
fileLock_Lock(err) ==
    IF err # ErrNil THEN (IF IsNotExist(err) THEN ErrNil ELSE err) ELSE ErrNil

\* fileLock.Unlock
fileLock_Unlock(err) ==
    IF err # ErrNil THEN (IF IsNotExist(err) THEN ErrNil ELSE err) ELSE ErrNil

\* fileLock.RLock
fileLock_RLock(err) ==
    IF err # ErrNil THEN (IF IsNotExist(err) THEN ErrNil ELSE err) ELSE ErrNil

\* fileLock.RUnlock
fileLock_RUnlock(err) ==
    IF err # ErrNil THEN (IF IsNotExist(err) THEN ErrNil ELSE err) ELSE ErrNil

\* The wrapper of the method a goroutine in mode `mode` calls to lock.
LockWrap(mode, err) == IF mode = "W" THEN fileLock_Lock(err) ELSE fileLock_RLock(err)

UnlockWrap(mode, err) ==
    IF mode = "W" THEN fileLock_Unlock(err) ELSE fileLock_RUnlock(err)

LockOp(mode) == IF mode = "W" THEN "Lock" ELSE "RLock"

UnlockOp(mode) == IF mode = "W" THEN "Unlock" ELSE "RUnlock"

\* Flock.lock failed with `err` before it held anything new; a handle it had
\* just opened is closed again (ensureFhState).
FlockLockFails(g, mode, err) ==
    /\ Return(g, LockOp(mode), err, LockWrap(mode, err))
    /\ IF LockWrap(mode, err) = ErrNil
       THEN /\ gmode' = [gmode EXCEPT ![g] = mode]
            /\ gpc' = [gpc EXCEPT ![g] = "held"]
            /\ UNCHANGED <<gtarget, gkey, glock>>
       ELSE Leave(g)
    /\ UNCHANGED objs

\* fl.lock.Lock() / fl.lock.RLock(): Flock.lock(&f.l, LOCK_EX) or
\* Flock.lock(&f.r, LOCK_SH), up to the point where flock(2) returns or blocks:
\*   already locked in this mode: return nil at once;
\*   no handle: open the lock file (O_CREATE), which fails when the directory
\*     is missing (ENOENT) or may not be entered (EACCES);
\*   flock(2): fails (ENOLCK), or takes the lock when no other handle holds a
\*     conflicting one, or removes the lock the handle holds in the other mode
\*     and blocks, with the Flock's mutex held.
FileLockCall(g, mode) ==
    /\ gpc[g] = "got"
    /\ Obj(g).kind = "fileLock"
    /\ Obj(g).m = NoG
    /\ LET o == glock[g]
           flag == Flag(mode)
       IN \/ /\ Locked(o, flag)
             /\ Return(g, LockOp(mode), ErrNil, LockWrap(mode, ErrNil))
             /\ gmode' = [gmode EXCEPT ![g] = mode]
             /\ gpc' = [gpc EXCEPT ![g] = "held"]
             /\ UNCHANGED <<objs, gtarget, gkey, glock>>
          \/ /\ ~Locked(o, flag)
             /\ ~objs[o].fh
             /\ objs[o].path \in missing
             /\ FlockLockFails(g, mode, "PathError:ENOENT")
          \/ /\ ~Locked(o, flag)
             /\ ~objs[o].fh
             /\ objs[o].path \notin missing
             /\ \E err \in OpenErrors \ {"PathError:ENOENT"} :
                   FlockLockFails(g, mode, err)
          \/ /\ ~Locked(o, flag)
             /\ objs[o].fh \/ objs[o].path \notin missing
             /\ \E err \in SyscallErrors : FlockLockFails(g, mode, err)
          \/ /\ ~Locked(o, flag)
             /\ objs[o].fh \/ objs[o].path \notin missing
             /\ Compatible(o, flag)
             /\ SetObj(g, [Obj(g) EXCEPT !.fh = TRUE, !.k = flag,
                                         !.l = IF flag = "EX" THEN TRUE ELSE @,
                                         !.r = IF flag = "SH" THEN TRUE ELSE @])
             /\ Return(g, LockOp(mode), ErrNil, LockWrap(mode, ErrNil))
             /\ gmode' = [gmode EXCEPT ![g] = mode]
             /\ gpc' = [gpc EXCEPT ![g] = "held"]
             /\ UNCHANGED <<gtarget, gkey, glock>>
          \/ /\ ~Locked(o, flag)
             /\ objs[o].fh \/ objs[o].path \notin missing
             /\ ~Compatible(o, flag)
             /\ SetObj(g, [Obj(g) EXCEPT !.fh = TRUE, !.k = "UN", !.m = g])
             /\ gmode' = [gmode EXCEPT ![g] = mode]
             /\ gpc' = [gpc EXCEPT ![g] = "fl_wait"]
             /\ UNCHANGED <<lastCall, gtarget, gkey, glock>>
    /\ UNCHANGED <<locks, locksGuard, agent, missing>>

\* The blocked flock(2) returns: the conflicting locks are gone.  Flock.lock
\* sets its flag, releases the mutex and returns nil.
FileLockWake(g) ==
    /\ gpc[g] = "fl_wait"
    /\ Compatible(glock[g], Flag(gmode[g]))
    /\ SetObj(g, [Obj(g) EXCEPT !.k = Flag(gmode[g]), !.m = NoG,
                                !.l = IF gmode[g] = "W" THEN TRUE ELSE @,
                                !.r = IF gmode[g] = "R" THEN TRUE ELSE @])
    /\ Return(g, LockOp(gmode[g]), ErrNil, LockWrap(gmode[g], ErrNil))
    /\ gpc' = [gpc EXCEPT ![g] = "held"]
    /\ UNCHANGED <<locks, locksGuard, agent, missing, gtarget, gkey, glock, gmode>>

\* fileLock.Unlock and fileLock.RUnlock: both call fl.lock.Unlock(), which
\* returns nil when neither flag is set or there is no handle, and otherwise
\* unlocks the handle (LOCK_UN), closes it and clears BOTH flags.
FileUnlockCall(g) ==
    /\ gpc[g] = "held"
    /\ Obj(g).kind = "fileLock"
    /\ Obj(g).m = NoG
    /\ LET mode == gmode[g]
       IN \/ /\ (~Obj(g).l /\ ~Obj(g).r) \/ ~Obj(g).fh
             /\ Return(g, UnlockOp(mode), ErrNil, UnlockWrap(mode, ErrNil))
             /\ UNCHANGED objs
          \/ /\ ~((~Obj(g).l /\ ~Obj(g).r) \/ ~Obj(g).fh)
             /\ \E err \in SyscallErrors :
                   Return(g, UnlockOp(mode), err, UnlockWrap(mode, err))
             /\ UNCHANGED objs
          \/ /\ ~((~Obj(g).l /\ ~Obj(g).r) \/ ~Obj(g).fh)
             /\ SetObj(g, [Obj(g) EXCEPT !.k = "UN", !.l = FALSE, !.r = FALSE,
                                         !.fh = FALSE])
             /\ Return(g, UnlockOp(mode), ErrNil, UnlockWrap(mode, ErrNil))
    /\ Leave(g)
    /\ UNCHANGED <<locks, locksGuard, agent, missing>>

-----------------------------------------------------------------------------
(* The external file-sync agent: another process that takes and releases   *)
(* flock(2) locks on the lock files that exist.                            *)

AgentLock(p, flag) ==
    /\ p \notin missing
    /\ p \notin DOMAIN agent
    /\ \A o \in ObjIds :
          (objs[o].kind = "fileLock" /\ objs[o].path = p) =>
             IF flag = "EX" THEN objs[o].k = "UN" ELSE objs[o].k # "EX"
    /\ agent' = [q \in DOMAIN agent \cup {p} |-> IF q = p THEN flag ELSE agent[q]]
    /\ UNCHANGED <<locks, locksGuard, objs, missing, gpc, gtarget, gkey, glock,
                   gmode, lastCall>>

AgentUnlock(p) ==
    /\ p \in DOMAIN agent
    /\ agent' = [q \in DOMAIN agent \ {p} |-> agent[q]]
    /\ UNCHANGED <<locks, locksGuard, objs, missing, gpc, gtarget, gkey, glock,
                   gmode, lastCall>>

-----------------------------------------------------------------------------

(* InMemoryQueue.  A subscriber brings a channel of its own; a consumer on  *)
(* the subscriber's side receives from the channel and acks what it got.   *)

Subscribers == 1..NumSubscribers
Publishers == 1..NumPublishers
NoS == 0

\* names.IncompleteQueueName
Names == {"snapshot_workspace", "ci_build_enqueue"}

\* NewInMemory, followed or not by Sync(); nobody has subscribed or published.
InitQueue ==
    /\ qsync \in BOOLEAN
    /\ chans = <<>>
    /\ guardW = NoS
    /\ guardR = {}
    /\ chcap = [s \in Subscribers |-> 0]
    /\ chbuf = [s \in Subscribers |-> <<>>]
    /\ spc = [s \in Subscribers |-> "idle"]
    /\ sname = [s \in Subscribers |-> ""]
    /\ received = [s \in Subscribers |-> <<>>]
    /\ acked = {}
    /\ ppc = [p \in Publishers |-> "idle"]
    /\ pname = [p \in Publishers |-> ""]
    /\ pmsg = [p \in Publishers |-> 0]
    /\ psnap = [p \in Publishers |-> <<>>]
    /\ psend = [p \in Publishers |-> <<>>]
    /\ pret = [p \in Publishers |-> ""]
    /\ npub = 0
    /\ pctx = [p \in Publishers |-> FALSE]
    /\ plog = <<>>

\* A run that only uses the locker: the queue stays as NewInMemory made it.
\* The workspace store, the views and the services above them, not in use.
InitMergeUnused ==
    /\ changes = {}
    /\ trunkHead = <<>>
    /\ remoteHead = <<>>
    /\ prState = ""
    /\ merges = <<>>
    /\ nmerge = 0
    /\ pulls = <<>>

InitSuggestUnused ==
    /\ snapshots = {}
    /\ suggestions = <<>>
    /\ notifications = <<>>
    /\ records = <<>>
    /\ nrecord = 0
    /\ interleave = FALSE
    /\ created = <<>>

InitHunksUnused ==
    /\ workdir = <<>>
    /\ sdiff = {}
    /\ hlast = <<>>
    /\ truth = <<>>

InitLateUnused ==
    /\ aclState = <<>>
    /\ prImporting = FALSE
    /\ apis = <<>>
    /\ remotes = <<>>
    /\ vqueue = <<>>
    /\ vevents = <<>>
    /\ flast = <<>>

InitStoreUnused ==
    /\ InitLateUnused
    /\ workspaces = <<>>
    /\ views = <<>>
    /\ wlast = <<>>
    /\ InitMergeUnused
    /\ InitSuggestUnused
    /\ InitHunksUnused

InitLockOnly ==
    /\ InitLock
    /\ InitQueue
    /\ ~qsync
    /\ InitStoreUnused

\* A run that only uses the queue: the locker stays as newLocker made it.
InitQueueOnly ==
    /\ InitQueue
    /\ InitLock
    /\ missing = {}
    /\ InitStoreUnused

-----------------------------------------------------------------------------
(* InMemoryQueue.Subscribe *)

Range(seq) == {seq[i] : i \in DOMAIN seq}

\* q.chansGuard.Lock(), first half: the writer announces itself; no other
\* writer holds or awaits the lock.  `cap` is the capacity of the channel the
\* subscriber made.
SubscribeCall(s, name, cap) ==
    /\ spc[s] = "idle"
    /\ guardW = NoS
    /\ guardW' = s
    /\ sname' = [sname EXCEPT ![s] = name]
    /\ chcap' = [chcap EXCEPT ![s] = cap]
    /\ spc' = [spc EXCEPT ![s] = "locking"]
    /\ UNCHANGED <<qsync, chans, guardR, chbuf, received, acked, ppc, pname, pmsg,
                   psnap, psend, pret, npub, pctx, plog>>

\* q.chansGuard.Lock() returns once no Publish holds the read lock;
\* q.chans[name] = append(q.chans[name], messages); q.chansGuard.Unlock()
SubscribeAppend(s) ==
    /\ spc[s] = "locking"
    /\ guardR = {}
    /\ chans' = [n \in DOMAIN chans \cup {sname[s]} |->
                    IF n = sname[s]
                    THEN Append(IF n \in DOMAIN chans THEN chans[n] ELSE <<>>, s)
                    ELSE chans[n]]
    /\ guardW' = NoS
    /\ spc' = [spc EXCEPT ![s] = "subscribed"]
    /\ UNCHANGED <<qsync, guardR, chcap, chbuf, sname, received, acked, ppc, pname,
                   pmsg, psnap, psend, pret, npub, pctx, plog>>

\* The subscription's context is cancelled: <-ctx.Done() returns; return nil
SubscribeReturn(s) ==
    /\ spc[s] = "subscribed"
    /\ spc' = [spc EXCEPT ![s] = "returned"]
    /\ UNCHANGED <<qsync, chans, guardW, guardR, chcap, chbuf, sname, received,
                   acked, ppc, pname, pmsg, psnap, psend, pret, npub, pctx, plog>>

-----------------------------------------------------------------------------
(* InMemoryQueue.Publish.  Every goroutine of the errgroup makes a message *)
(* of its own (newInmemoryMessage, with an ack channel of its own), named  *)
(* here by the Publish call and the channel it is sent to.                 *)

Inst(p, i) == <<pmsg[p], psnap[p][i]>>

\* if q.sync { m.AwaitAcked() } for every message
AfterSendAlwaysAwait == "await"

\* ch <- m is done: if q.sync { m.AwaitAcked() }; return nil
AfterSend == IF qsync THEN "await" ELSE "done"

\* One ack channel for all the messages of a Publish call.
AckClosedForAny(inst) == \E s \in Subscribers : <<inst[1], s>> \in acked

\* <-m.ack returns: the message's ack channel is closed.
AckClosed(inst) == inst \in acked

\* Publish returns without wg.Wait().
NoWait(p) == TRUE

\* wg.Wait() returns: every goroutine of the group has returned.
GroupDone(p) == \A i \in DOMAIN psend[p] : psend[p][i] \in {"done", "error"}

\* q.chansGuard.RLock() (it waits while a writer holds or awaits the lock);
\* chans, ok := q.chans[name]; if !ok { return nil }; one goroutine per
\* channel, each starting with newInmemoryMessage(msg), which fails when msg
\* cannot be marshalled (`marshals` is FALSE).
PublishCall(p, name, marshals) ==
    /\ ppc[p] \in {"idle", "returned"}
    /\ npub < MaxPublishes
    /\ guardW = NoS
    /\ npub' = npub + 1
    /\ pname' = [pname EXCEPT ![p] = name]
    /\ pmsg' = [pmsg EXCEPT ![p] = npub + 1]
    /\ IF name \notin DOMAIN chans
       THEN /\ ppc' = [ppc EXCEPT ![p] = "returned"]
            /\ pret' = [pret EXCEPT ![p] = "nil"]
            /\ psnap' = [psnap EXCEPT ![p] = <<>>]
            /\ psend' = [psend EXCEPT ![p] = <<>>]
            /\ UNCHANGED guardR
       ELSE /\ ppc' = [ppc EXCEPT ![p] = "running"]
            /\ pret' = [pret EXCEPT ![p] = ""]
            /\ psnap' = [psnap EXCEPT ![p] = chans[name]]
            /\ psend' = [psend EXCEPT ![p] =
                            [i \in DOMAIN chans[name] |->
                                IF marshals THEN "sending" ELSE "error"]]
            /\ guardR' = guardR \cup {p}
    /\ pctx' = [pctx EXCEPT ![p] = FALSE]
    /\ plog' = Append(plog, [pub |-> p, name |-> name, snap |-> psnap'[p],
                             ret |-> pret'[p]])
    /\ UNCHANGED <<qsync, chans, guardW, chcap, chbuf, spc, sname, received, acked>>

\* ch <- m on a channel with room in its buffer.
Send(p, i) ==
    /\ ppc[p] = "running"
    /\ i \in DOMAIN psend[p]
    /\ psend[p][i] = "sending"
    /\ LET ch == psnap[p][i]
       IN /\ Len(chbuf[ch]) < chcap[ch]
          /\ chbuf' = [chbuf EXCEPT ![ch] = Append(@, Inst(p, i))]
    /\ psend' = [psend EXCEPT ![p][i] = AfterSend]
    /\ UNCHANGED <<qsync, chans, guardW, guardR, chcap, spc, sname, received, acked,
                   ppc, pname, pmsg, psnap, pret, npub, pctx, plog>>

\* ch <- m on an unbuffered channel: the send completes when the consumer
\* receives.
SendToReceiver(p, i) ==
    /\ ppc[p] = "running"
    /\ i \in DOMAIN psend[p]
    /\ psend[p][i] = "sending"
    /\ LET ch == psnap[p][i]
       IN /\ chcap[ch] = 0
          /\ received' = [received EXCEPT ![ch] = Append(@, Inst(p, i))]
    /\ psend' = [psend EXCEPT ![p][i] = AfterSend]
    /\ UNCHANGED <<qsync, chans, guardW, guardR, chcap, chbuf, spc, sname, acked,
                   ppc, pname, pmsg, psnap, pret, npub, pctx, plog>>

\* m.AwaitAcked() returns; return nil
AwaitAcked(p, i) ==
    /\ ppc[p] = "running"
    /\ i \in DOMAIN psend[p]
    /\ psend[p][i] = "await"
    /\ AckClosed(Inst(p, i))
    /\ psend' = [psend EXCEPT ![p][i] = "done"]
    /\ UNCHANGED <<qsync, chans, guardW, guardR, chcap, chbuf, spc, sname, received,
                   acked, ppc, pname, pmsg, psnap, pret, npub, pctx, plog>>

\* return wg.Wait(): the first error of the goroutines, or nil; the deferred
\* q.chansGuard.RUnlock() runs.
PublishReturn(p) ==
    /\ ppc[p] = "running"
    /\ GroupDone(p)
    /\ pret' = [pret EXCEPT ![p] =
                   IF \E i \in DOMAIN psend[p] : psend[p][i] = "error"
                   THEN "err" ELSE "nil"]
    /\ guardR' = guardR \ {p}
    /\ ppc' = [ppc EXCEPT ![p] = "returned"]
    /\ plog' = [plog EXCEPT ![pmsg[p]].ret = pret'[p]]
    /\ UNCHANGED <<qsync, chans, guardW, chcap, chbuf, spc, sname, received, acked,
                   pname, pmsg, psnap, psend, npub, pctx>>

\* The caller cancels the context it passed to Publish.  Publish hands ctx to
\* errgroup.WithContext and drops the derived context; neither its goroutines
\* nor wg.Wait() look at it.
CancelPublish(p) ==
    /\ ppc[p] = "running"
    /\ ~pctx[p]
    /\ pctx' = [pctx EXCEPT ![p] = TRUE]
    /\ UNCHANGED <<qsync, chans, guardW, guardR, chcap, chbuf, spc, sname, received,
                   acked, ppc, pname, pmsg, psnap, psend, pret, npub, plog>>

-----------------------------------------------------------------------------
(* The consumer of a subscriber's channel. *)

\* m := <-messages on a channel with a buffered message.
Receive(s) ==
    /\ chbuf[s] # <<>>
    /\ received' = [received EXCEPT ![s] = Append(@, Head(chbuf[s]))]
    /\ chbuf' = [chbuf EXCEPT ![s] = Tail(@)]
    /\ UNCHANGED <<qsync, chans, guardW, guardR, chcap, spc, sname, acked, ppc,
                   pname, pmsg, psnap, psend, pret, npub, pctx, plog>>

\* m.Ack(): close(m.ack), once per message.
Ack(s, inst) ==
    /\ inst \in Range(received[s])
    /\ inst \notin acked
    /\ acked' = acked \cup {inst}
    /\ UNCHANGED <<qsync, chans, guardW, guardR, chcap, chbuf, spc, sname, received,
                   ppc, pname, pmsg, psnap, psend, pret, npub, pctx, plog>>

Insts == (1..MaxPublishes) \X Subscribers

NextQueue ==
    \/ \E s \in Subscribers, n \in Names, c \in 0..MaxChanCap :
          SubscribeCall(s, n, c) /\ UNCHANGED <<lockVars, storeVars>>
    \/ \E s \in Subscribers : SubscribeAppend(s) /\ UNCHANGED <<lockVars, storeVars>>
    \/ \E s \in Subscribers : SubscribeReturn(s) /\ UNCHANGED <<lockVars, storeVars>>
    \/ \E p \in Publishers, n \in Names, ok \in BOOLEAN :
          PublishCall(p, n, ok) /\ UNCHANGED <<lockVars, storeVars>>
    \/ \E p \in Publishers, i \in Subscribers : Send(p, i) /\ UNCHANGED <<lockVars, storeVars>>
    \/ \E p \in Publishers, i \in Subscribers : SendToReceiver(p, i) /\ UNCHANGED <<lockVars, storeVars>>
    \/ \E p \in Publishers, i \in Subscribers : AwaitAcked(p, i) /\ UNCHANGED <<lockVars, storeVars>>
    \/ \E p \in Publishers : PublishReturn(p) /\ UNCHANGED <<lockVars, storeVars>>
    \/ \E p \in Publishers : CancelPublish(p) /\ UNCHANGED <<lockVars, storeVars>>
    \/ \E s \in Subscribers : Receive(s) /\ UNCHANGED <<lockVars, storeVars>>
    \/ \E s \in Subscribers, inst \in Insts : Ack(s, inst) /\ UNCHANGED <<lockVars, storeVars>>

SpecQueue == InitQueueOnly /\ [][NextQueue]_vars

-----------------------------------------------------------------------------
\* A caller that only wanted the lock object drops it without locking.
Forget(g) ==
    /\ gpc[g] = "got"
    /\ Leave(g)
    /\ UNCHANGED <<locks, locksGuard, objs, agent, missing, lastCall>>

\* Goroutines that call Get on any of the targets.
NextLocker ==
    \/ \E g \in Goroutines, t \in Targets : GetCall(g, t) /\ UNCHANGED <<queueVars, storeVars>>
    \/ \E g \in Goroutines : GetLookup(g) /\ UNCHANGED <<queueVars, storeVars>>
    \/ \E g \in Goroutines : GetInsert(g) /\ UNCHANGED <<queueVars, storeVars>>
    \/ \E g \in Goroutines : Forget(g) /\ UNCHANGED <<queueVars, storeVars>>

SpecLocker == InitLockOnly /\ [][NextLocker]_vars

\* Goroutines that get the lock of the trunk or of the view and lock it for
\* writing or for reading, next to the file-sync agent.
NextLock ==
    \/ \E g \in Goroutines, t \in LockTargets : GetCall(g, t) /\ UNCHANGED <<queueVars, storeVars>>
    \/ \E g \in Goroutines : GetLookup(g) /\ UNCHANGED <<queueVars, storeVars>>
    \/ \E g \in Goroutines : GetInsert(g) /\ UNCHANGED <<queueVars, storeVars>>
    \/ \E g \in Goroutines : MutexLockAnnounce(g) /\ UNCHANGED <<queueVars, storeVars>>
    \/ \E g \in Goroutines : MutexLockAcquire(g) /\ UNCHANGED <<queueVars, storeVars>>
    \/ \E g \in Goroutines : MutexRLock(g) /\ UNCHANGED <<queueVars, storeVars>>
    \/ \E g \in Goroutines : MutexUnlock(g) /\ UNCHANGED <<queueVars, storeVars>>
    \/ \E g \in Goroutines : MutexRUnlock(g) /\ UNCHANGED <<queueVars, storeVars>>
    \/ \E g \in Goroutines, mode \in {"W", "R"} : FileLockCall(g, mode) /\ UNCHANGED <<queueVars, storeVars>>
    \/ \E g \in Goroutines : FileLockWake(g) /\ UNCHANGED <<queueVars, storeVars>>
    \/ \E g \in Goroutines : FileUnlockCall(g) /\ UNCHANGED <<queueVars, storeVars>>
    \/ \E p \in LockFiles, flag \in {"SH", "EX"} : AgentLock(p, flag) /\ UNCHANGED <<queueVars, storeVars>>
    \/ \E p \in LockFiles : AgentUnlock(p) /\ UNCHANGED <<queueVars, storeVars>>

SpecLock == InitLockOnly /\ [][NextLock]_vars

-----------------------------------------------------------------------------
(* The workspace store (package db, memory): a list of workspace records.  *)
(* A nil pointer field is Nil; the three values of UpToDateWithTrunk, a    *)
(* pointer to a bool, are Nil, "true" and "false"; ArchivedAt is Nil or a  *)
(* time.                                                                   *)

UpToDateValues == {Nil, "true", "false"}

Workspace(id, codebaseID, userID) ==
    [ID |-> id, CodebaseID |-> codebaseID, UserID |-> userID, ViewID |-> Nil,
     ArchivedAt |-> Nil, ChangeID |-> Nil, LatestSnapshotID |-> Nil,
     UpToDateWithTrunk |-> Nil]

\* memory.Get: the place of the first record with the id, 0 for sql.ErrNoRows.
Get(wss, id) ==
    IF \E i \in DOMAIN wss : wss[i].ID = id
    THEN CHOOSE i \in DOMAIN wss :
            wss[i].ID = id /\ \A j \in 1..(i - 1) : wss[j].ID # id
    ELSE 0

UnsetUpToDateWithTrunkForAll(wss, codebaseID) ==
    [idx \in DOMAIN wss |-> [wss[idx] EXCEPT !.UpToDateWithTrunk = Nil]]

UnsetUpToDateWithTrunkForAllInCodebase(wss, codebaseID) ==
    [idx \in DOMAIN wss |->
        IF wss[idx].CodebaseID = codebaseID
        THEN [wss[idx] EXCEPT !.UpToDateWithTrunk = Nil]
        ELSE wss[idx]]

\* memory.UpdateFields: opts maps the fields whose option was given to their
\* new values; the first record with the id takes them, and no record changes
\* when there is none (sql.ErrNoRows).
UpdateFields(wss, workspaceID, opts) ==
    IF Get(wss, workspaceID) = 0
    THEN wss
    ELSE [wss EXCEPT ![Get(wss, workspaceID)] =
             [f \in DOMAIN @ |-> IF f \in DOMAIN opts THEN opts[f] ELSE @[f]]]

\* memory.GetByViewID: the place of the first record on the view, 0 for
\* sql.ErrNoRows.
GetByViewID(wss, viewId, includeArchived) ==
    LET on(i) == /\ wss[i].ViewID # Nil
                 /\ wss[i].ViewID = viewId
                 /\ (includeArchived \/ wss[i].ArchivedAt = Nil)
    IN IF \E i \in DOMAIN wss : on(i)
       THEN CHOOSE i \in DOMAIN wss : on(i) /\ \A j \in 1..(i - 1) : ~on(j)
       ELSE 0

-----------------------------------------------------------------------------
(* The GitHub merge path (Service.mergePullRequest, called for a merged    *)
(* pull request by UpdatePullRequestFromGitHub) and the remote pull        *)
(* (EnterpriseService.Pull).  The tracked branch of the remote is a line   *)
(* of commits, RemoteLog; a head is a place in it, and a trunk repository  *)
(* holds the commits up to its sturdytrunk head.                           *)

Handlers == 1..NumHandlers

RemoteLog == <<"base", "merge", "next">>

\* The pull request of workspace "w1": merged on GitHub as commit "merge" on
\* top of "base".
PR == [WorkspaceID |-> "w1", CodebaseID |-> "c",
       MergeCommitSHA |-> "merge", BaseSHA |-> "base"]

IdleMerge == [pc |-> "idle", ret |-> "", pr |-> "", pull |-> FALSE,
              moved |-> FALSE, ch |-> Nil]

IdlePull == [pc |-> "idle", ret |-> "", moved |-> FALSE, codebaseID |-> Nil]

InitMerge ==
    /\ \E u2 \in UpToDateValues, u3 \in UpToDateValues \ {Nil} :
          workspaces =
             << [Workspace("w1", "c", "alice") EXCEPT
                    !.UpToDateWithTrunk = "true", !.LatestSnapshotID = "s1"],
                [Workspace("w2", "c", "bob") EXCEPT !.UpToDateWithTrunk = u2],
                [Workspace("w3", "c/v", "bob") EXCEPT !.UpToDateWithTrunk = u3] >>
    /\ views = <<>>
    /\ wlast = <<>>
    /\ changes = {}
    /\ trunkHead = [c \in CodebaseIDs |-> 1]
    /\ remoteHead = [c \in CodebaseIDs |-> 2]
    /\ prState = "open"
    /\ merges = [h \in Handlers |-> IdleMerge]
    /\ nmerge = 0
    /\ pulls = IdlePull

\* repo.GetCommitDetails(sha) finds the commit in the trunk repository.
CommitExists(codebaseID, sha) ==
    \E i \in 1..trunkHead[codebaseID] : RemoteLog[i] = sha

ChangeNeverExists(codebaseID, sha) == FALSE

\* changeService.CreateWithCommitAsParent answers ErrAlreadyExists when the
\* codebase has a Change for the commit.
ChangeExists(codebaseID, sha) ==
    \E ch \in changes : ch.CodebaseID = codebaseID /\ ch.CommitID = sha

\* What UpdatePullRequestFromGitHub does with what mergePullRequest returned:
\* on nil, updatePRFromGitHub stores pr.State = getPRState(gitHubPR), merged.
StateAfterMerge(err) == IF err = ErrNil THEN "merged" ELSE prState

\* A push to the tracked branch on GitHub.
RemotePush(c) ==
    /\ remoteHead[c] < Len(RemoteLog)
    /\ remoteHead' = [remoteHead EXCEPT ![c] = @ + 1]
    /\ UNCHANGED <<workspaces, views, wlast, changes, trunkHead, prState, merges,
                   nmerge, pulls>>

\* mergePullRequest up to pullFromGitHubIfCommitNotExists: pr.State ==
\* PullRequestStateMerging returns nil; workspacesService.GetByID; a merged
\* pr whose workspace has a ChangeID returns nil.
MergeCall(h, found) ==
    /\ merges[h].pc \in {"idle", "returned"}
    /\ nmerge < MaxMergeCalls
    /\ nmerge' = nmerge + 1
    /\ LET ws == Get(workspaces, PR.WorkspaceID)
           err == IF prState = "merging" THEN ErrNil
                  ELSE IF ~found \/ ws = 0 THEN "err"
                  ELSE IF prState = "merged" /\ workspaces[ws].ChangeID # Nil
                       THEN ErrNil
                  ELSE ""
       IN /\ merges' = [merges EXCEPT ![h] =
                           IF err = ""
                           THEN [IdleMerge EXCEPT !.pc = "check", !.pr = prState]
                           ELSE [IdleMerge EXCEPT !.pc = "returned", !.ret = err,
                                                  !.pr = prState]]
          /\ prState' = StateAfterMerge(err)
    /\ UNCHANGED <<workspaces, views, wlast, changes, trunkHead, remoteHead, pulls>>

\* pullFromGitHubIfCommitNotExists, the GitRead: shouldPull when the merge
\* commit or its base is not in the trunk repository.
MergeCheck(h, ok) ==
    /\ merges[h].pc = "check"
    /\ merges' = [merges EXCEPT ![h] =
                     IF ~ok THEN [@ EXCEPT !.pc = "returned", !.ret = "err"]
                     ELSE IF \E sha \in {PR.MergeCommitSHA, PR.BaseSHA} :
                                ~CommitExists(PR.CodebaseID, sha)
                          THEN [@ EXCEPT !.pc = "fetch", !.pull = TRUE]
                          ELSE [@ EXCEPT !.pc = "create"]]
    /\ UNCHANGED <<workspaces, views, wlast, changes, trunkHead, remoteHead,
                   prState, nmerge, pulls>>

\* pullFromGitHubIfCommitNotExists, the GitWrite: FetchTrackedToSturdytrunk
\* sets refs/heads/sturdytrunk to the head of the tracked branch.
MergeFetch(h, ok) ==
    /\ merges[h].pc = "fetch"
    /\ IF ok
       THEN /\ trunkHead' = [trunkHead EXCEPT ![PR.CodebaseID] = remoteHead[PR.CodebaseID]]
            /\ merges' = [merges EXCEPT ![h].pc = "create",
                             ![h].moved = (trunkHead[PR.CodebaseID] #
                                              remoteHead[PR.CodebaseID])]
       ELSE /\ merges' = [merges EXCEPT ![h].pc = "returned", ![h].ret = "err"]
            /\ UNCHANGED trunkHead
    /\ UNCHANGED <<workspaces, views, wlast, changes, remoteHead, prState, nmerge,
                   pulls>>

\* changeService.CreateWithCommitAsParent: ErrAlreadyExists returns nil, any
\* other error is returned; else the Change is created (analytics and the
\* build queue follow, and do not fail the call).
MergeCreateChange(h, ok) ==
    /\ merges[h].pc = "create"
    /\ IF ChangeExists(PR.CodebaseID, PR.MergeCommitSHA)
       THEN /\ merges' = [merges EXCEPT ![h].pc = "returned", ![h].ret = ErrNil]
            /\ prState' = StateAfterMerge(ErrNil)
            /\ UNCHANGED changes
       ELSE IF ~ok
       THEN /\ merges' = [merges EXCEPT ![h].pc = "returned", ![h].ret = "err"]
            /\ UNCHANGED <<changes, prState>>
       ELSE /\ changes' = changes \cup
                  {[ID |-> "ch-" \o PR.MergeCommitSHA, CodebaseID |-> PR.CodebaseID,
                    CommitID |-> PR.MergeCommitSHA, WorkspaceID |-> PR.WorkspaceID]}
            /\ merges' = [merges EXCEPT ![h].pc = "unset",
                                        ![h].ch = "ch-" \o PR.MergeCommitSHA]
            /\ UNCHANGED prState
    /\ UNCHANGED <<workspaces, views, wlast, trunkHead, remoteHead, nmerge, pulls>>

\* workspaceWriter.UnsetUpToDateWithTrunkForAllInCodebase(ws.CodebaseID)
MergeUnset(h) ==
    /\ merges[h].pc = "unset"
    /\ workspaces' = UnsetUpToDateWithTrunkForAllInCodebase(workspaces, PR.CodebaseID)
    /\ merges' = [merges EXCEPT ![h].pc = "activity"]
    /\ UNCHANGED <<views, wlast, changes, trunkHead, remoteHead, prState, nmerge,
                   pulls>>

\* activitySender.Codebase, activityService.SetChange and
\* commentsService.MoveCommentsFromWorkspaceToChange: the first that fails
\* ends the call with its error.
MergeActivity(h, ok) ==
    /\ merges[h].pc = "activity"
    /\ merges' = [merges EXCEPT ![h] =
                     IF ok THEN [@ EXCEPT !.pc = "archive"]
                     ELSE [@ EXCEPT !.pc = "returned", !.ret = "err"]]
    /\ UNCHANGED <<workspaces, views, wlast, changes, trunkHead, remoteHead,
                   prState, nmerge, pulls>>

\* workspacesService.ArchiveWithChange archives the workspace and sets its
\* change_id.
ArchiveWithChange(wss, workspaceID, changeID) ==
    UpdateFields(wss, workspaceID,
                 [f \in {"ArchivedAt", "ChangeID"} |->
                     IF f = "ArchivedAt" THEN "now" ELSE changeID])

\* workspacesService.ArchiveWithChange(ctx, ws, ch); return nil
MergeArchive(h, ok) ==
    /\ merges[h].pc = "archive"
    /\ IF ok
       THEN /\ workspaces' = ArchiveWithChange(workspaces, PR.WorkspaceID, merges[h].ch)
            /\ merges' = [merges EXCEPT ![h].pc = "returned", ![h].ret = ErrNil]
            /\ prState' = StateAfterMerge(ErrNil)
       ELSE /\ merges' = [merges EXCEPT ![h].pc = "returned", ![h].ret = "err"]
            /\ UNCHANGED <<workspaces, prState>>
    /\ UNCHANGED <<views, wlast, changes, trunkHead, remoteHead, nmerge, pulls>>

\* EnterpriseService.Pull up to the fetch: svc.repo.GetByCodebaseID, then the
\* GitWrite that fetches the tracked branch into refs/heads/sturdytrunk.
PullFetch(c, found, ok) ==
    /\ pulls.pc \in {"idle", "returned"}
    /\ IF found /\ ok
       THEN /\ trunkHead' = [trunkHead EXCEPT ![c] = remoteHead[c]]
            /\ pulls' = [pc |-> "fetched", ret |-> "", codebaseID |-> c,
                         moved |-> (trunkHead[c] # remoteHead[c])]
       ELSE /\ pulls' = [pc |-> "returned", ret |-> "err", codebaseID |-> c,
                         moved |-> FALSE]
            /\ UNCHANGED trunkHead
    /\ UNCHANGED <<workspaces, views, wlast, changes, remoteHead, prState, merges,
                   nmerge>>

\* The rest of Pull: changeService.UnsetHeadChangeCache, then
\* workspaceWriter.UnsetUpToDateWithTrunkForAllInCodebase; return nil
PullUnset(ok) ==
    /\ pulls.pc = "fetched"
    /\ IF ok
       THEN /\ workspaces' = UnsetUpToDateWithTrunkForAllInCodebase(workspaces,
                                                                  pulls.codebaseID)
            /\ pulls' = [pulls EXCEPT !.pc = "returned", !.ret = ErrNil]
       ELSE /\ pulls' = [pulls EXCEPT !.pc = "returned", !.ret = "err"]
            /\ UNCHANGED workspaces
    /\ UNCHANGED <<views, wlast, changes, trunkHead, remoteHead, prState, merges,
                   nmerge>>

NextMerge ==
    \/ \E c \in CodebaseIDs : RemotePush(c) /\ UNCHANGED <<lockVars, queueVars, lateVars, suggestVars, hunkVars>>
    \/ \E h \in Handlers, ok \in BOOLEAN : MergeCall(h, ok) /\ UNCHANGED <<lockVars, queueVars, lateVars, suggestVars, hunkVars>>
    \/ \E h \in Handlers, ok \in BOOLEAN : MergeCheck(h, ok) /\ UNCHANGED <<lockVars, queueVars, lateVars, suggestVars, hunkVars>>
    \/ \E h \in Handlers, ok \in BOOLEAN : MergeFetch(h, ok) /\ UNCHANGED <<lockVars, queueVars, lateVars, suggestVars, hunkVars>>
    \/ \E h \in Handlers, ok \in BOOLEAN :
          MergeCreateChange(h, ok) /\ UNCHANGED <<lockVars, queueVars, lateVars, suggestVars, hunkVars>>
    \/ \E h \in Handlers : MergeUnset(h) /\ UNCHANGED <<lockVars, queueVars, lateVars, suggestVars, hunkVars>>
    \/ \E h \in Handlers, ok \in BOOLEAN : MergeActivity(h, ok) /\ UNCHANGED <<lockVars, queueVars, lateVars, suggestVars, hunkVars>>
    \/ \E h \in Handlers, ok \in BOOLEAN : MergeArchive(h, ok) /\ UNCHANGED <<lockVars, queueVars, lateVars, suggestVars, hunkVars>>
    \/ \E c \in CodebaseIDs, found \in BOOLEAN, ok \in BOOLEAN :
          PullFetch(c, found, ok) /\ UNCHANGED <<lockVars, queueVars, lateVars, suggestVars, hunkVars>>
    \/ \E ok \in BOOLEAN : PullUnset(ok) /\ UNCHANGED <<lockVars, queueVars, lateVars, suggestVars, hunkVars>>

\* A run of the merge path and the remote pull only.
InitMergeOnly ==
    /\ InitHunksUnused
    /\ InitMerge
    /\ InitSuggestUnused
    /\ InitLock
    /\ missing = {}
    /\ InitQueue
    /\ ~qsync
    /\ InitLateUnused

SpecMerge == InitMergeOnly /\ [][NextMerge]_vars

-----------------------------------------------------------------------------
(* Calls on the workspace store, and ViewRootResolver.OpenWorkspaceOnView  *)
(* above it.  wlast keeps the last call: its number in the run, what was   *)
(* called with which arguments, what it returned, and the workspace and    *)
(* view records as they were when it was called.                           *)

NoStoreCall == [n |-> 0, op |-> "", ws |-> Nil, view |-> Nil, codebaseID |-> Nil,
                err |-> ErrNil, wss |-> <<>>, vws |-> <<>>]

\* Two views of alice's and bob's; three workspaces, none on a view, none
\* archived.
InitWorkspaces ==
    /\ \E u1 \in UpToDateValues, u3 \in UpToDateValues \ {Nil} :
          workspaces =
             << [Workspace("w1", "c", "alice") EXCEPT !.UpToDateWithTrunk = u1],
                [Workspace("w2", "c", "alice") EXCEPT !.UpToDateWithTrunk = "false"],
                [Workspace("w3", "c/v", "bob") EXCEPT !.UpToDateWithTrunk = u3] >>
    /\ views = [v \in {"v1", "v2"} |->
                   [ID |-> v, CodebaseID |-> "c", WorkspaceID |-> Nil,
                    UserID |-> IF v = "v1" THEN "alice" ELSE "bob"]]
    /\ wlast = NoStoreCall

\* The options of an UpdateFields call: SetViewID, SetArchivedAt or
\* SetUpToDateWithTrunk with each of their values.
UpdateOptions ==
    [{"ViewID"} -> DOMAIN views \cup {Nil}]
        \cup [{"ArchivedAt"} -> {Nil, "now"}]
        \cup [{"UpToDateWithTrunk"} -> UpToDateValues]

StoreCall(op, ws, view, codebaseID, err) ==
    [n |-> wlast.n + 1, op |-> op, ws |-> ws, view |-> view,
     codebaseID |-> codebaseID, err |-> err, wss |-> workspaces, vws |-> views]

UnsetUpToDateWithTrunkCall(codebaseID) ==
    /\ wlast.n < MaxStoreCalls
    /\ workspaces' = UnsetUpToDateWithTrunkForAllInCodebase(workspaces, codebaseID)
    /\ wlast' = StoreCall("UnsetUpToDateWithTrunkForAllInCodebase", Nil, Nil,
                          codebaseID, ErrNil)
    /\ UNCHANGED <<views, mergeVars>>

UpdateFieldsCall(workspaceID, opts) ==
    /\ wlast.n < MaxStoreCalls
    /\ workspaces' = UpdateFields(workspaces, workspaceID, opts)
    /\ wlast' = StoreCall("UpdateFields", workspaceID, Nil, Nil,
                          IF Get(workspaces, workspaceID) = 0
                          THEN "sql.ErrNoRows" ELSE ErrNil)
    /\ UNCHANGED <<views, mergeVars>>

AnyView(view, ws) == TRUE

\* if view.UserID != ws.UserID { return ... ErrBadRequest }
OwnView(view, ws) == view.UserID = ws.UserID

\* viewService.OpenWorkspace(ctx, view, ws), what it returns: it refuses an
\* archived workspace and a view that a workspace is open on; the checkout
\* may end in the rebasing state or fail.
OpenWorkspace(view, ws, outcome) ==
    IF ws.ArchivedAt # Nil THEN "archived"
    ELSE IF GetByViewID(workspaces, view.ID, FALSE) # 0 THEN "view in use"
    ELSE IF outcome = "rebasing" THEN "ErrRebasing"
    ELSE IF outcome = "fail" THEN "err"
    ELSE ErrNil

\* What OpenWorkspaceOnView returns.  auth names the check of authService
\* that refuses the caller, if any.
OpenWorkspaceOnViewErr(workspaceID, viewID, auth, outcome) ==
    IF Get(workspaces, workspaceID) = 0 THEN "NotFound"
    ELSE IF auth = "CanRead" THEN "Forbidden"
    ELSE IF viewID \notin DOMAIN views THEN "NotFound"
    ELSE IF auth = "CanWrite" THEN "Forbidden"
    ELSE IF workspaces[Get(workspaces, workspaceID)].ViewID = viewID THEN ErrNil
    ELSE IF ~OwnView(views[viewID], workspaces[Get(workspaces, workspaceID)])
         THEN "ErrBadRequest"
    ELSE OpenWorkspace(views[viewID], workspaces[Get(workspaces, workspaceID)],
                       outcome)

OpenWorkspaceOnView(workspaceID, viewID, auth, outcome) ==
    /\ wlast.n < MaxStoreCalls
    /\ LET err == OpenWorkspaceOnViewErr(workspaceID, viewID, auth, outcome)
       IN /\ wlast' = StoreCall("OpenWorkspaceOnView", workspaceID, viewID, Nil, err)
          /\ IF err = ErrNil /\ workspaces[Get(workspaces, workspaceID)].ViewID # viewID
             THEN /\ workspaces' = UpdateFields(workspaces, workspaceID,
                                                [f \in {"ViewID"} |-> viewID])
                  /\ views' = [views EXCEPT ![viewID].WorkspaceID = workspaceID]
             ELSE UNCHANGED <<workspaces, views>>
    /\ UNCHANGED mergeVars

NextWorkspaces ==
    \/ \E c \in CodebaseIDs :
          UnsetUpToDateWithTrunkCall(c) /\ UNCHANGED <<lockVars, queueVars, lateVars, suggestVars, hunkVars>>
    \/ \E id \in {"w1", "w2", "w3", "w4"}, opts \in UpdateOptions :
          UpdateFieldsCall(id, opts) /\ UNCHANGED <<lockVars, queueVars, lateVars, suggestVars, hunkVars>>
    \/ \E id \in {"w1", "w2", "w3", "w4"}, v \in {"v1", "v2", "v3"},
          auth \in {"", "CanRead", "CanWrite"}, outcome \in {"ok", "rebasing", "fail"} :
          OpenWorkspaceOnView(id, v, auth, outcome) /\ UNCHANGED <<lockVars, queueVars, lateVars, suggestVars, hunkVars>>

\* A run of calls on the workspace store and the resolver only.
InitWorkspacesOnly ==
    /\ InitHunksUnused
    /\ InitWorkspaces
    /\ InitMergeUnused
    /\ InitSuggestUnused
    /\ InitLock
    /\ missing = {}
    /\ InitQueue
    /\ ~qsync
    /\ InitLateUnused

SpecWorkspaces == InitWorkspacesOnly /\ [][NextWorkspaces]_vars

-----------------------------------------------------------------------------
(* The suggestion service (package service of suggestions): Create,        *)
(* Dismiss and RecordActivity over the persisted suggestions, the          *)
(* workspaces and their snapshots.                                         *)

Recorders == 1..NumRecorders

\* The ids uuid.NewString() gives to the suggestions of a run, and the ids
\* of the workspaces made for them.
SuggestionIDs == <<"sg1", "sg2">>
SuggestionWorkspaceIDs == <<"sw1", "sw2">>

IdleRecord == [pc |-> "idle", seq |-> 0, ws |-> Nil, suggestion |-> Nil, ret |-> "",
               sent |-> FALSE, event |-> "", changed |-> FALSE]

NoCreate == [forWorkspace |-> Nil, latest |-> Nil, err |-> ErrNil, id |-> Nil,
             before |-> <<>>]

\* Two workspaces, alice's with a snapshot and bob's without; no suggestion
\* yet.
InitCreate ==
    /\ workspaces = << [Workspace("w1", "c", "alice") EXCEPT !.LatestSnapshotID = "w1#1"],
                       Workspace("w2", "c", "bob") >>
    /\ snapshots = {[ID |-> "w1#1", WorkspaceID |-> "w1"]}
    /\ suggestions = <<>>
    /\ notifications = <<>>
    /\ records = <<>>
    /\ nrecord = 0
    /\ interleave = FALSE
    /\ created = NoCreate

\* What Create(ctx, "bob", w1) left: bob's suggestion sg1, made from
\* workspace sw1, for alice's workspace w1.  Calls run one at a time or
\* interleave, as interleave says.
InitRecord ==
    /\ workspaces = << [Workspace("w1", "c", "alice") EXCEPT !.LatestSnapshotID = "w1#1"],
                       [Workspace("sw1", "c", "bob") EXCEPT !.LatestSnapshotID = "sw1#1"] >>
    /\ snapshots = {[ID |-> "w1#1", WorkspaceID |-> "w1"],
                    [ID |-> "sw1#1", WorkspaceID |-> "sw1"]}
    /\ suggestions = << [ID |-> "sg1", CodebaseID |-> "c", WorkspaceID |-> "sw1",
                         ForSnapshotID |-> "w1#1", ForWorkspaceID |-> "w1",
                         UserID |-> "bob", NotifiedAt |-> Nil, DismissedAt |-> Nil] >>
    /\ notifications = <<0>>
    /\ records = [r \in Recorders |-> IdleRecord]
    /\ nrecord = 0
    /\ interleave \in BOOLEAN
    /\ created = NoCreate

\* No RecordActivity call is under way, or calls may interleave.
MayStart == interleave \/ \A r \in Recorders : records[r].pc \in {"idle", "returned"}

\* The snapshotter takes a snapshot of a workspace: a new snapshot record,
\* which becomes the workspace's latest.
TakeSnapshot(workspaceID) ==
    /\ Get(workspaces, workspaceID) # 0
    /\ Cardinality(snapshots) < MaxSnapshots
    /\ LET id == workspaceID \o "#" \o
                    ToString(Cardinality({s \in snapshots : s.WorkspaceID = workspaceID}) + 1)
       IN /\ snapshots' = snapshots \cup {[ID |-> id, WorkspaceID |-> workspaceID]}
          /\ workspaces' = UpdateFields(workspaces, workspaceID,
                                        [f \in {"LatestSnapshotID"} |-> id])
    /\ UNCHANGED <<suggestions, notifications, records, nrecord, interleave, created>>

AlwaysForkable(forWorkspace) == FALSE

\* if forWorkspace.LatestSnapshotID == nil { return nil, fmt.Errorf(...) }
HasNoSnapshot(forWorkspace) == forWorkspace.LatestSnapshotID = Nil

\* Service.Create.  fails names the call that fails, if any:
\* workspaceService.CreateFromWorkspace (which makes the suggesting
\* workspace), workspaceService.CopyPatches (which snapshots it) or
\* suggestionRepo.Create.
Create(userID, forWorkspaceID, fails) ==
    /\ Get(workspaces, forWorkspaceID) # 0
    /\ Len(suggestions) < Len(SuggestionIDs)
    /\ Len(workspaces) - 1 \in DOMAIN SuggestionWorkspaceIDs
    /\ LET forWorkspace == workspaces[Get(workspaces, forWorkspaceID)]
           id == SuggestionIDs[Len(suggestions) + 1]
           wsID == SuggestionWorkspaceIDs[Len(workspaces) - 1]
           ws == Workspace(wsID, forWorkspace.CodebaseID, userID)
           snap == [ID |-> wsID \o "#1", WorkspaceID |-> wsID]
           err == IF HasNoSnapshot(forWorkspace) THEN "workspace has no snapshot"
                  ELSE IF fails = "" THEN ErrNil ELSE fails
       IN /\ created' = [forWorkspace |-> forWorkspaceID,
                         latest |-> forWorkspace.LatestSnapshotID, err |-> err,
                         id |-> IF err = ErrNil THEN id ELSE Nil,
                         before |-> suggestions]
          /\ workspaces' =
                IF HasNoSnapshot(forWorkspace) \/ fails = "CreateFromWorkspace"
                THEN workspaces
                ELSE IF fails = "CopyPatches" THEN Append(workspaces, ws)
                ELSE Append(workspaces, [ws EXCEPT !.LatestSnapshotID = snap.ID])
          /\ snapshots' =
                IF HasNoSnapshot(forWorkspace) \/ fails \in {"CreateFromWorkspace", "CopyPatches"}
                THEN snapshots ELSE snapshots \cup {snap}
          /\ suggestions' =
                IF err # ErrNil THEN suggestions
                ELSE Append(suggestions,
                            [ID |-> id, CodebaseID |-> ws.CodebaseID,
                             WorkspaceID |-> ws.ID,
                             ForSnapshotID |-> forWorkspace.LatestSnapshotID,
                             ForWorkspaceID |-> forWorkspace.ID, UserID |-> userID,
                             NotifiedAt |-> Nil, DismissedAt |-> Nil])
          /\ notifications' =
                IF err # ErrNil THEN notifications ELSE Append(notifications, 0)
    /\ UNCHANGED <<records, nrecord, interleave>>

\* Service.Dismiss on a suggestion as stored: DismissedAt = now, then
\* suggestionRepo.Update.
Dismiss(i, ok) ==
    /\ MayStart
    /\ i \in DOMAIN suggestions
    /\ suggestions[i].DismissedAt = Nil
    /\ suggestions' = IF ok THEN [suggestions EXCEPT ![i].DismissedAt = "now"]
                      ELSE suggestions
    /\ UNCHANGED <<workspaces, snapshots, notifications, records, nrecord,
                   interleave, created>>

\* suggestionRepo.GetByWorkspaceID: the place of the suggestion made from the
\* workspace, 0 for sql.ErrNoRows.
GetByWorkspaceID(workspaceID) ==
    IF \E i \in DOMAIN suggestions : suggestions[i].WorkspaceID = workspaceID
    THEN CHOOSE i \in DOMAIN suggestions : suggestions[i].WorkspaceID = workspaceID
    ELSE 0

\* RecordActivity up to the notification: s.GetByWorkspaceID (sql.ErrNoRows
\* returns nil, another error is returned), then workspaceService.GetByID of
\* the target.
RecordActivityCall(r, workspaceID, ok) ==
    /\ records[r].pc \in {"idle", "returned"}
    /\ MayStart
    /\ nrecord < MaxRecordCalls
    /\ nrecord' = nrecord + 1
    /\ records' = [records EXCEPT ![r] =
          LET call == [IdleRecord EXCEPT !.seq = nrecord + 1, !.ws = workspaceID]
              i == GetByWorkspaceID(workspaceID)
          IN IF i = 0
             THEN [call EXCEPT !.pc = "returned", !.ret = ErrNil]
             ELSE IF ~ok \/ Get(workspaces, suggestions[i].ForWorkspaceID) = 0
             THEN [call EXCEPT !.pc = "returned", !.ret = "err"]
             ELSE [call EXCEPT !.pc = "notify", !.suggestion = suggestions[i]]]
    /\ UNCHANGED <<workspaces, snapshots, suggestions, notifications, interleave,
                   created>>

ShouldNotify(suggestion) == suggestion.NotifiedAt = Nil

NeverResurrect(suggestion) == FALSE

ShouldResurrect(suggestion) == suggestion.DismissedAt # Nil

\* shouldNotify: notificationSender.User (a failure is logged), NotifiedAt =
\* now; shouldResurrect: DismissedAt = nil; return nil when neither.
RecordActivityNotify(r, sendOk) ==
    /\ records[r].pc = "notify"
    /\ LET suggestion == records[r].suggestion
           i == GetByWorkspaceID(records[r].ws)
       IN /\ notifications' =
                IF ShouldNotify(suggestion) /\ sendOk
                THEN [notifications EXCEPT ![i] = @ + 1]
                ELSE notifications
          /\ records' = [records EXCEPT ![r] =
                IF ShouldNotify(suggestion) \/ ShouldResurrect(suggestion)
                THEN [@ EXCEPT !.pc = "update",
                               !.sent = ShouldNotify(suggestion) /\ sendOk,
                               !.suggestion =
                                  [suggestion EXCEPT
                                     !.NotifiedAt = IF ShouldNotify(suggestion)
                                                    THEN "now" ELSE @,
                                     !.DismissedAt = IF ShouldResurrect(suggestion)
                                                     THEN Nil ELSE @]]
                ELSE [@ EXCEPT !.pc = "returned", !.ret = ErrNil]]
    /\ UNCHANGED <<workspaces, snapshots, suggestions, nrecord, interleave, created>>

\* suggestionRepo.Update(ctx, suggestion) (its error is returned), then
\* eventSender.Workspace(..., WorkspaceUpdatedSuggestion, ...) (a failure is
\* logged); return nil
RecordActivityUpdate(r, updateOk, eventOk) ==
    /\ records[r].pc = "update"
    /\ LET i == GetByWorkspaceID(records[r].ws)
       IN /\ suggestions' = IF updateOk
                            THEN [suggestions EXCEPT ![i] = records[r].suggestion]
                            ELSE suggestions
          /\ records' = [records EXCEPT ![r] =
                IF updateOk
                THEN [@ EXCEPT !.pc = "returned", !.ret = ErrNil,
                               !.event = IF eventOk THEN "published" ELSE "failed",
                               !.changed = (suggestions[i] # records[r].suggestion)]
                ELSE [@ EXCEPT !.pc = "returned", !.ret = "err"]]
    /\ UNCHANGED <<workspaces, snapshots, notifications, nrecord, interleave, created>>

NextCreate ==
    \/ \E w \in {"w1", "w2", "sw1"} :
          TakeSnapshot(w) /\ UNCHANGED <<lockVars, queueVars, lateVars, views, wlast, mergeVars, hunkVars>>
    \/ \E u \in {"alice", "bob"}, w \in {"w1", "w2", "sw1"},
          fails \in {"", "CreateFromWorkspace", "CopyPatches", "suggestionRepo.Create"} :
          Create(u, w, fails) /\ UNCHANGED <<lockVars, queueVars, lateVars, views, wlast, mergeVars, hunkVars>>

\* A run of Create and the snapshotter only.
InitCreateOnly ==
    /\ InitHunksUnused
    /\ InitCreate
    /\ views = <<>>
    /\ wlast = <<>>
    /\ InitMergeUnused
    /\ InitLock
    /\ missing = {}
    /\ InitQueue
    /\ ~qsync
    /\ InitLateUnused

SpecCreate == InitCreateOnly /\ [][NextCreate]_vars

NextRecord ==
    \/ \E i \in DOMAIN SuggestionIDs, ok \in BOOLEAN :
          Dismiss(i, ok) /\ UNCHANGED <<lockVars, queueVars, lateVars, views, wlast, mergeVars, hunkVars>>
    \/ \E r \in Recorders, w \in {"w1", "sw1"}, ok \in BOOLEAN :
          RecordActivityCall(r, w, ok)
             /\ UNCHANGED <<lockVars, queueVars, lateVars, views, wlast, mergeVars, hunkVars>>
    \/ \E r \in Recorders, ok \in BOOLEAN :
          RecordActivityNotify(r, ok)
             /\ UNCHANGED <<lockVars, queueVars, lateVars, views, wlast, mergeVars, hunkVars>>
    \/ \E r \in Recorders, updateOk \in BOOLEAN, eventOk \in BOOLEAN :
          RecordActivityUpdate(r, updateOk, eventOk)
             /\ UNCHANGED <<lockVars, queueVars, lateVars, views, wlast, mergeVars, hunkVars>>

\* A run of RecordActivity and Dismiss only.
InitRecordOnly ==
    /\ InitHunksUnused
    /\ InitRecord
    /\ views = <<>>
    /\ wlast = <<>>
    /\ InitMergeUnused
    /\ InitLock
    /\ missing = {}
    /\ InitQueue
    /\ ~qsync
    /\ InitLateUnused

SpecRecord == InitRecordOnly /\ [][NextRecord]_vars

-----------------------------------------------------------------------------
(* Properties of the locker. *)

InCritical(g, mode) == gpc[g] = "held" /\ gmode[g] = mode

\* C1: for every lock key, at most one goroutine is between a returned Lock()
\* and its matching Unlock(), for the file lock of a view as for the mutex of
\* the trunk.
C1_OneWriterPerKey ==
    \A g1, g2 \in Goroutines :
        (g1 # g2 /\ InCritical(g1, "W") /\ InCritical(g2, "W"))
            => gkey[g1] # gkey[g2]

\* C2: while a reader of a view's file lock is between its RLock() and its
\* RUnlock(), no other goroutine and not the file-sync agent holds the write
\* lock of that view, whatever other readers have released.
C2_ReaderExcludesWriters ==
    \A g \in Goroutines :
        (InCritical(g, "R") /\ Obj(g).kind = "fileLock") =>
            /\ ~(Obj(g).path \in DOMAIN agent /\ agent[Obj(g).path] = "EX")
            /\ \A g2 \in Goroutines \ {g} :
                  ~(InCritical(g2, "W") /\ glock[g2] = glock[g])

\* C3: every Get with one key returns the object registered for the key, the
\* same for all callers, and the object registered for a key is never
\* replaced.
C3_OneLockPerKey ==
    /\ [](\A g \in Goroutines :
             glock[g] # NoObj =>
                /\ gkey[g] \in DOMAIN locks
                /\ locks[gkey[g]] = glock[g])
    /\ [][\A k \in DOMAIN locks : k \in DOMAIN locks' /\ locks'[k] = locks[k]]_vars

\* Two goroutines hold the lock object of one key at the same time, and they
\* hold the same one.
C3_Witness ==
    \E g1, g2 \in Goroutines :
        /\ g1 # g2
        /\ gpc[g1] = "got" /\ gpc[g2] = "got"
        /\ gkey[g1] = gkey[g2]
        /\ glock[g1] = glock[g2]

\* C4: Get(codebase, nil) returns an in-memory mutex, Get(codebase, v) the file
\* lock on v's .git/sturdy.lock, and two different (codebase, view) targets
\* never get the same lock object, for all id strings.
C4_OneLockPerTarget ==
    /\ \A g \in Goroutines :
          glock[g] # NoObj =>
             IF gtarget[g].viewID = Nil
             THEN Obj(g).kind = "mutexLock"
             ELSE /\ Obj(g).kind = "fileLock"
                  /\ Obj(g).path = lockFile(gtarget[g].codebaseID, gtarget[g].viewID)
    /\ \A g1, g2 \in Goroutines :
          (glock[g1] # NoObj /\ glock[g2] # NoObj /\ gtarget[g1] # gtarget[g2])
             => glock[g1] # glock[g2]

\* C5: a method of a view's file lock returns nil when its flock call failed
\* because the lock file does not exist, and returns every other failure of
\* the flock call as it is.
C5_MissingFileTolerated ==
    lastCall.g # NoG =>
        /\ lastCall.op \in {"Lock", "Unlock", "RLock", "RUnlock"}
        /\ lastCall.under = ErrNil => lastCall.ret = ErrNil
        /\ lastCall.under = "PathError:ENOENT" => lastCall.ret = ErrNil
        /\ lastCall.under \in {"PathError:EACCES", "ENOLCK"}
              => lastCall.ret = lastCall.under

\* Lock() on a view whose lock file cannot be opened for lack of its directory
\* returned nil, and the caller is in its critical section.
C5_Witness ==
    /\ lastCall.g # NoG
    /\ lastCall.op = "Lock"
    /\ lastCall.under = "PathError:ENOENT"
    /\ lastCall.ret = ErrNil
    /\ InCritical(lastCall.g, "W")

-----------------------------------------------------------------------------
(* Properties of the queue. *)

\* The channel of the subscriber has taken the message: it is in the channel's
\* buffer, or the consumer has received it.
Accepted(inst) == inst \in Range(chbuf[inst[2]]) \cup Range(received[inst[2]])

Received(inst) == inst \in Range(received[inst[2]])

\* The channel can take a message without the consumer doing anything.
HasRoom(ch) == Len(chbuf[ch]) < chcap[ch]

C7_SyncReturnAfterAllAcks ==
    qsync =>
        \A p \in Publishers :
            ppc[p] = "returned" =>
                \A i \in DOMAIN psnap[p] :
                    /\ Received(Inst(p, i))
                    /\ Inst(p, i) \in acked

\* C7 as amended: with Sync(), the channels a running Publish sends to are the
\* subscribers registered for the name; a goroutine of Publish is done only
\* after its own subscriber received and acked its own copy; and Publish has
\* returned nil only after every one of them did.
C7_SyncNilAfterAllAcks ==
    qsync =>
        \A p \in Publishers :
            /\ ppc[p] = "running" => psnap[p] = chans[pname[p]]
            /\ \A i \in DOMAIN psend[p] :
                  psend[p][i] = "done" =>
                     /\ Received(Inst(p, i))
                     /\ Inst(p, i) \in acked
            /\ (ppc[p] = "returned" /\ pret[p] = "nil") =>
                  \A i \in DOMAIN psnap[p] :
                     /\ Received(Inst(p, i))
                     /\ Inst(p, i) \in acked

\* With Sync(), a Publish to a name with two subscribers has returned nil.
C7_Witness ==
    /\ qsync
    /\ \E p \in Publishers :
          /\ ppc[p] = "returned" /\ pret[p] = "nil"
          /\ Len(psnap[p]) = 2

\* C8: once Subscribe has returned because its context was cancelled, no
\* later Publish on the queue name sends to, or waits on, the subscriber's
\* channel.
C8_CancelUnsubscribes ==
    [][\A p \in Publishers :
          (ppc[p] # "running" /\ ppc'[p] = "running") =>
             \A i \in DOMAIN psnap'[p] : spc[psnap'[p][i]] # "returned"]_vars

\* C9: every message for which Publish returned nil is delivered to a
\* subscriber of the name.
C9_AcceptedIsDelivered ==
    \A p \in Publishers :
        (ppc[p] = "returned" /\ pret[p] = "nil") =>
            \E s \in Subscribers : Accepted(<<pmsg[p], s>>)

\* C9 as amended: every message for which Publish returned nil while the name
\* had subscribers was taken by the channel of every subscriber registered at
\* publish time; a Publish that read no subscriber delivers to nobody.
C9_DeliveredToSubscribersRead ==
    \A p \in Publishers :
        (ppc[p] = "returned" /\ pret[p] = "nil") =>
            /\ \A i \in DOMAIN psnap[p] : Accepted(Inst(p, i))
            /\ \A s \in Subscribers :
                  Accepted(<<pmsg[p], s>>) => s \in Range(psnap[p])

\* Publish has returned nil for a message that the channels of two subscribers
\* took.
C9_Witness ==
    \E p \in Publishers :
        /\ ppc[p] = "returned" /\ pret[p] = "nil"
        /\ Len(psnap[p]) = 2
        /\ \A i \in DOMAIN psnap[p] : Accepted(Inst(p, i))

\* C10: each message published to a queue name is handed to exactly one
\* consumer, also when several subscribers subscribed to the name.
C10_SingleConsumer ==
    \A m \in 1..npub :
        Cardinality({s \in Subscribers : Accepted(<<m, s>>)}) <= 1

\* What subscriber s's channel has carried, oldest first: the messages its
\* consumer received, then the ones still in the buffer.
Carried(s) == received[s] \o chbuf[s]

\* The place of x in seq, 0 when x is not in it.
Pos(seq, x) ==
    IF \E k \in DOMAIN seq : seq[k] = x
    THEN CHOOSE k \in DOMAIN seq : seq[k] = x
    ELSE 0

WaitsOnSubscriber(p, i) ==
    \/ psend[p][i] = "sending" /\ ~HasRoom(psnap[p][i])
    \/ psend[p][i] = "await" /\ ~AckClosed(Inst(p, i))

\* C12: Publish never blocks forever: once the context passed to it is
\* cancelled, no goroutine of a running Publish is left waiting on a
\* subscriber that may never receive or ack, so that Publish can return; and a
\* Publish held up by a subscriber keeps no Subscribe call from completing.
C12_CancelReleasesPublish ==
    /\ \A p \in Publishers :
          (ppc[p] = "running" /\ pctx[p]) =>
              \A i \in DOMAIN psend[p] : ~WaitsOnSubscriber(p, i)
    /\ \A s \in Subscribers :
          spc[s] = "locking" =>
              \A p \in guardR : \A i \in DOMAIN psend[p] : ~WaitsOnSubscriber(p, i)

-----------------------------------------------------------------------------
(* Properties of the merge path and the remote pull. *)

\* C13: whenever no mergePullRequest call is under way (each one made has
\* returned, with or without an error, retries included), a workspace has a
\* change_id if and only if a Change has been created for it.
C13_ChangeIdIffLanded ==
    (\A h \in Handlers : merges[h].pc \in {"idle", "returned"}) =>
        \A i \in DOMAIN workspaces :
            workspaces[i].ChangeID # Nil <=>
                \E ch \in changes : ch.WorkspaceID = workspaces[i].ID

\* C14: once a call whose fetch moved refs/heads/sturdytrunk (the remote
\* Pull, or mergePullRequest through pullFromGitHubIfCommitNotExists) has
\* returned nil, every workspace of the codebase has up_to_date_with_trunk
\* unknown.
C14_TrunkMoveUnsetsUpToDate ==
    /\ (pulls.pc = "returned" /\ pulls.ret = ErrNil /\ pulls.moved) =>
          \A i \in DOMAIN workspaces :
              workspaces[i].CodebaseID = pulls.codebaseID =>
                  workspaces[i].UpToDateWithTrunk = Nil
    /\ \A h \in Handlers :
          (merges[h].pc = "returned" /\ merges[h].ret = ErrNil /\ merges[h].moved) =>
              \A i \in DOMAIN workspaces :
                  workspaces[i].CodebaseID = PR.CodebaseID =>
                      workspaces[i].UpToDateWithTrunk = Nil

-----------------------------------------------------------------------------
(* Properties of the workspace store and of OpenWorkspaceOnView. *)

\* C15: UnsetUpToDateWithTrunkForAllInCodebase(c) sets up_to_date_with_trunk
\* to unknown for every workspace of codebase c, leaves it as it was for the
\* workspaces of every other codebase, and changes no other field of any
\* workspace.
C15_UnsetTouchesOneCodebaseOneField ==
    wlast.op = "UnsetUpToDateWithTrunkForAllInCodebase" =>
        /\ DOMAIN workspaces = DOMAIN wlast.wss
        /\ \A i \in DOMAIN workspaces :
              /\ workspaces[i].UpToDateWithTrunk =
                    IF wlast.wss[i].CodebaseID = wlast.codebaseID
                    THEN Nil ELSE wlast.wss[i].UpToDateWithTrunk
              /\ \A f \in DOMAIN wlast.wss[i] \ {"UpToDateWithTrunk"} :
                    workspaces[i][f] = wlast.wss[i][f]

\* The call cleared the field of a workspace of its codebase that was on a
\* view and known to be up to date, next to a workspace of another codebase
\* whose field is known.
C15_Witness ==
    /\ wlast.op = "UnsetUpToDateWithTrunkForAllInCodebase"
    /\ \E i \in DOMAIN workspaces, j \in DOMAIN workspaces :
          /\ wlast.wss[i].CodebaseID = wlast.codebaseID
          /\ wlast.wss[i].UpToDateWithTrunk = "true"
          /\ wlast.wss[i].ViewID # Nil
          /\ workspaces[i].UpToDateWithTrunk = Nil
          /\ workspaces[j].CodebaseID # wlast.codebaseID
          /\ workspaces[j].UpToDateWithTrunk # Nil

\* C16: after any sequence of OpenWorkspaceOnView calls and updates of
\* workspace records, no view id is the view_id of two workspaces that are
\* not archived (a workspace has one view_id, so it references at most one
\* view).
C16_OneOpenWorkspacePerView ==
    \A i \in DOMAIN workspaces, j \in DOMAIN workspaces :
        (/\ i # j
         /\ workspaces[i].ViewID # Nil
         /\ workspaces[i].ViewID = workspaces[j].ViewID
         /\ workspaces[i].ArchivedAt = Nil) =>
            workspaces[j].ArchivedAt # Nil

-----------------------------------------------------------------------------
(* Properties of the suggestion service. *)

\* C18: over any sequence or interleaving of RecordActivity calls, failing
\* sends and updates included, the owner of the target workspace is sent the
\* new-suggestion notification of a suggestion exactly once: never twice, and
\* once when the suggestion is recorded as notified.
C18_NotifiedExactlyOnce ==
    \A i \in DOMAIN suggestions :
        /\ notifications[i] <= 1
        /\ suggestions[i].NotifiedAt # Nil => notifications[i] = 1

C20_ForSnapshotOfTarget ==
    /\ \A i \in DOMAIN suggestions :
          \E sn \in snapshots : /\ sn.ID = suggestions[i].ForSnapshotID
                                /\ sn.WorkspaceID = suggestions[i].ForWorkspaceID
    /\ created.forWorkspace # Nil =>
          /\ created.latest = Nil => created.err # ErrNil
          /\ IF created.err # ErrNil
             THEN suggestions = created.before
             ELSE /\ Len(suggestions) = Len(created.before) + 1
                  /\ \A i \in DOMAIN created.before : suggestions[i] = created.before[i]
                  /\ suggestions[Len(suggestions)].ForSnapshotID = created.latest
                  /\ suggestions[Len(suggestions)].ForWorkspaceID = created.forWorkspace

\* A suggestion is persisted whose target has since taken a newer snapshot,
\* and the last Create was refused for a target without a snapshot.
C20_Witness ==
    /\ created.forWorkspace # Nil
    /\ created.latest = Nil
    /\ created.err # ErrNil
    /\ \E i \in DOMAIN suggestions :
          suggestions[i].ForSnapshotID #
             workspaces[Get(workspaces, suggestions[i].ForWorkspaceID)].LatestSnapshotID

-----------------------------------------------------------------------------
(* The hunks of a suggestion (package service of suggestions): Diffs,      *)
(* ApplyHunks, DismissHunks and RemovePatches on the one suggestion sg1,   *)
(* made from workspace sw1 for workspace w1, and PrepareBranchForPush.     *)
(* Calls run one at a time.  A working tree is kept as the hunks whose     *)
(* patch has been applied to it (has) and the hunks whose region its owner *)
(* has edited (drift).                                                     *)

\* The hunks the suggesting workspace can differ by from the fork-time
\* snapshot, by byte offset; h1 and h2 are in a.txt, g1 in b.txt.  A hunk is
\* named by its id, the hash of its patch text.
HunkOrder == <<"h1", "h2", "g1">>

HunkIDs == {HunkOrder[i] : i \in DOMAIN HunkOrder}

PreferredNames == <<"a.txt", "b.txt">>

PreferredName(h) == IF h = "g1" THEN "b.txt" ELSE "a.txt"

EmptyTree == [has |-> {}, drift |-> {}]

\* The call that fails in a call on the service, "" for none.
HunkFailures == {"", "workspaceService.GetByID", "snapshotter.GetByID",
                 "snapshotter.Snapshot", "suggestionRepo.Update"}

NoHunkCall == [n |-> 0, op |-> "", ws |-> "", ids |-> {}, fails |-> "", ret |-> "",
               path |-> "", steps |-> {}, diffs |-> <<>>]

\* The target's snapshot after it edited the region h2 changes.
DriftedTree == [has |-> {}, drift |-> {"h2"}]

\* Suggestion sg1 of bob for alice's workspace w1, forked at snapshot w1#1,
\* with the hunks h2 and g1.  The target has not changed since, or it has
\* edited the region of h2 and been snapshotted (w1#2); it is on view v1,
\* which holds its latest snapshot, or on no view.  The suggesting workspace
\* is on the view sv or on none.
InitHunks(sv) ==
    /\ \E v \in {Nil, "v1"}, latest \in {"w1#1", "w1#2"} :
          /\ workspaces = << [Workspace("w1", "c", "alice") EXCEPT
                                 !.LatestSnapshotID = latest, !.ViewID = v],
                             [Workspace("sw1", "c", "bob") EXCEPT
                                 !.LatestSnapshotID = "sw1#1", !.ViewID = sv] >>
          /\ snapshots =
                {[ID |-> "w1#1", WorkspaceID |-> "w1", Action |-> "snapshot",
                  Tree |-> EmptyTree],
                 [ID |-> "sw1#1", WorkspaceID |-> "sw1", Action |-> "snapshot",
                  Tree |-> EmptyTree]}
                \cup (IF latest = "w1#1" THEN {}
                      ELSE {[ID |-> "w1#2", WorkspaceID |-> "w1", Action |-> "snapshot",
                             Tree |-> DriftedTree]})
          /\ workdir = IF latest = "w1#1" THEN EmptyTree ELSE DriftedTree
    /\ suggestions = << [ID |-> "sg1", CodebaseID |-> "c", WorkspaceID |-> "sw1",
                         ForSnapshotID |-> "w1#1", ForWorkspaceID |-> "w1",
                         UserID |-> "bob", NotifiedAt |-> Nil, DismissedAt |-> Nil,
                         AppliedHunks |-> <<>>, DismissedHunks |-> <<>>] >>
    /\ notifications = <<0>>
    /\ records = [r \in Recorders |-> IdleRecord]
    /\ nrecord = 0
    /\ interleave = FALSE
    /\ created = NoCreate
    /\ sdiff = {"h2", "g1"}
    /\ hlast = NoHunkCall
    /\ truth = [applied |-> {}, dismissed |-> {}]

\* snapshotter.GetByID
SnapshotByID(id) == CHOOSE sn \in snapshots : sn.ID = id

\* What a workspace holds now: the working tree of its view, or else its
\* latest snapshot.
Contents(ws) ==
    IF ws.ViewID # Nil THEN workdir
    ELSE IF ws.LatestSnapshotID # Nil THEN SnapshotByID(ws.LatestSnapshotID).Tree
    ELSE EmptyTree

\* repo.CanApplyPatch
CanApplyPatch(tree, h) == h \notin tree.drift /\ h \notin tree.has

ApplyPatchesOneByOne(tree, patches) ==
    [err |-> IF \A i \in DOMAIN patches : CanApplyPatch(tree, patches[i])
             THEN ErrNil ELSE "conflict",
     tree |-> [tree EXCEPT !.has = @ \cup {patches[i] : i \in
                              {j \in DOMAIN patches : CanApplyPatch(tree, patches[j])}}]]

\* repo.ApplyPatchesToWorkdir: every patch applies and all are staged, or the
\* batch is aborted.
ApplyPatchesToWorkdir(tree, patches) ==
    IF \A i \in DOMAIN patches : CanApplyPatch(tree, patches[i])
    THEN [err |-> ErrNil,
          tree |-> [tree EXCEPT !.has = @ \cup {patches[i] : i \in DOMAIN patches}]]
    ELSE [err |-> "conflict", tree |-> tree]

\* The hunks a ledger entry can name: a file and a 0-based index.
LedgerHunks ==
    {[FileName |-> PreferredNames[f], Index |-> i] :
        f \in DOMAIN PreferredNames, i \in 0..(Len(HunkOrder) - 1)}

\* (&suggestions.Hunk{FileName, Index}).String() of each of them
HunkStrings == [a \in LedgerHunks |-> a.FileName \o "#" \o ToString(a.Index)]

HunkString(fileName, index) == HunkStrings[[FileName |-> fileName, Index |-> index]]

\* suggestions.ParseAppliedHunkID, Nil for an error.
ParseAppliedHunkID(s) ==
    IF \E a \in LedgerHunks : HunkStrings[a] = s
    THEN CHOOSE a \in LedgerHunks : HunkStrings[a] = s
    ELSE Nil

\* repo.DiffCommits(baseSnapshot.CommitSHA, suggestingSnapshot.CommitSHA),
\* decorated: the files that differ, each with its hunks in order.
DiffCommits(sd) ==
    LET hunksOf(f) == SelectSeq(HunkOrder, LAMBDA h : h \in sd /\ PreferredName(h) = f)
        all == [i \in DOMAIN PreferredNames |->
                   [PreferredName |-> PreferredNames[i],
                    Hunks |-> hunksOf(PreferredNames[i])]]
    IN SelectSeq(all, LAMBDA fd : fd.Hunks # <<>>)

\* Service.diffs: nil without a snapshot of the suggesting workspace; the
\* hunks at the places the two ledgers name are marked applied and
\* dismissed; with the target on a view, the others are marked outdated when
\* their patch does not apply to it.
diffs(suggestion, originalWorkspace) ==
    LET suggestingWorkspace == workspaces[Get(workspaces, suggestion.WorkspaceID)]
        named(ledger, fileName, index) ==
            \E k \in DOMAIN ledger :
                /\ ParseAppliedHunkID(ledger[k]).FileName = fileName
                /\ ParseAppliedHunkID(ledger[k]).Index = index
        mark(fd) ==
            [PreferredName |-> fd.PreferredName,
             Hunks |-> [i \in DOMAIN fd.Hunks |->
                LET applied == named(suggestion.AppliedHunks, fd.PreferredName, i - 1)
                    dismissed == named(suggestion.DismissedHunks, fd.PreferredName, i - 1)
                IN [ID |-> fd.Hunks[i], IsApplied |-> applied, IsDismissed |-> dismissed,
                    IsOutdated |-> /\ originalWorkspace.ViewID # Nil
                                   /\ ~applied /\ ~dismissed
                                   /\ ~CanApplyPatch(workdir, fd.Hunks[i])]]]
    IN IF suggestingWorkspace.LatestSnapshotID = Nil THEN <<>>
       ELSE [i \in DOMAIN DiffCommits(sdiff) |-> mark(DiffCommits(sdiff)[i])]

\* The repository steps Service.diffs runs.
diffsSteps(suggestion, originalWorkspace) ==
    IF workspaces[Get(workspaces, suggestion.WorkspaceID)].LatestSnapshotID = Nil THEN {}
    ELSE IF originalWorkspace.ViewID = Nil THEN {"GitRead"}
    ELSE {"GitRead", "Read"}

\* The hunks of fileDiffs whose id is among ids, in order: each with its
\* patch and its ledger entry.
RECURSIVE Selected(_, _)
Selected(fileDiffs, ids) ==
    IF fileDiffs = <<>> THEN <<>>
    ELSE LET fd == Head(fileDiffs)
             all == [i \in DOMAIN fd.Hunks |->
                        [patch |-> fd.Hunks[i].ID,
                         entry |-> HunkString(fd.PreferredName, i - 1)]]
         IN SelectSeq(all, LAMBDA x : x.patch \in ids) \o Selected(Tail(fileDiffs), ids)

\* snapshotter.Snapshot(..., WithMarkAsLatestInWorkspace()): the new snapshot
\* record and the workspace records after it.
Snapshot(workspaceID, action, tree) ==
    LET id == workspaceID \o "#" \o
                 ToString(Cardinality({s \in snapshots : s.WorkspaceID = workspaceID}) + 1)
    IN [snapshots |-> snapshots \cup {[ID |-> id, WorkspaceID |-> workspaceID,
                                       Action |-> action, Tree |-> tree]},
        workspaces |-> UpdateFields(workspaces, workspaceID,
                                    [f \in {"LatestSnapshotID"} |-> id])]

\* A call returns: what it leaves in hlast, and the state it leaves.
Returns(call, wss, snaps, sgs, wd, sd, tr) ==
    /\ hlast' = [call EXCEPT !.n = hlast.n + 1]
    /\ workspaces' = wss
    /\ snapshots' = snaps
    /\ suggestions' = sgs
    /\ workdir' = wd
    /\ sdiff' = sd
    /\ truth' = tr
    /\ UNCHANGED <<notifications, records, nrecord, interleave, created>>

\* Service.Diffs
Diffs(fails) ==
    LET suggestion == suggestions[1]
        originalWorkspace == workspaces[Get(workspaces, suggestion.ForWorkspaceID)]
        call == [NoHunkCall EXCEPT !.op = "Diffs", !.ws = suggestion.ForWorkspaceID,
                                   !.fails = fails]
    IN /\ hlast.n < MaxHunkCalls
       /\ fails \in {"", "workspaceService.GetByID"}
       /\ Returns(IF fails # "" THEN [call EXCEPT !.ret = fails]
                  ELSE [call EXCEPT !.ret = ErrNil,
                                    !.steps = diffsSteps(suggestion, originalWorkspace),
                                    !.diffs = diffs(suggestion, originalWorkspace)],
                  workspaces, snapshots, suggestions, workdir, sdiff, truth)

\* Service.ApplyHunks
ApplyHunks(hunkIDs, fails) ==
    LET suggestion == suggestions[1]
        originalWorkspace == workspaces[Get(workspaces, suggestion.ForWorkspaceID)]
        fileDiffs == diffs(suggestion, originalWorkspace)
        selected == Selected(fileDiffs, hunkIDs)
        patches == [i \in DOMAIN selected |-> selected[i].patch]
        appliedHunks == [i \in DOMAIN selected |-> selected[i].entry]
        call == [NoHunkCall EXCEPT !.op = "ApplyHunks", !.ws = suggestion.ForWorkspaceID,
                                   !.ids = hunkIDs, !.fails = fails]
        read == [call EXCEPT !.steps = diffsSteps(suggestion, originalWorkspace),
                             !.diffs = fileDiffs]
        onSnapshot == originalWorkspace.ViewID = Nil
        tree == Contents(originalWorkspace)
        done == ApplyPatchesToWorkdir(tree, patches)
        snap == Snapshot(originalWorkspace.ID, "suggestion_apply", done.tree)
        wrote == [read EXCEPT !.path = IF onSnapshot THEN "snapshot" ELSE "view",
                              !.steps = @ \cup {"Write"}]
        wss == IF onSnapshot THEN snap.workspaces ELSE workspaces
        snaps == IF onSnapshot THEN snap.snapshots ELSE snapshots
        wd == IF onSnapshot THEN workdir ELSE done.tree
        same(c) == Returns(c, workspaces, snapshots, suggestions, workdir, sdiff, truth)
    IN /\ hlast.n < MaxHunkCalls
       /\ IF hunkIDs = {} THEN same([call EXCEPT !.ret = ErrNil])
          ELSE IF fails = "workspaceService.GetByID" THEN same([call EXCEPT !.ret = fails])
          ELSE IF onSnapshot /\ originalWorkspace.LatestSnapshotID = Nil
          THEN same([read EXCEPT !.ret = "panic"])
          ELSE IF onSnapshot /\ fails = "snapshotter.GetByID"
          THEN same([read EXCEPT !.path = "snapshot", !.ret = fails])
          ELSE IF done.err # ErrNil
          THEN Returns([wrote EXCEPT !.ret = "failed to apply patches"],
                       workspaces, snapshots, suggestions, wd, sdiff, truth)
          ELSE IF onSnapshot /\ fails = "snapshotter.Snapshot"
          THEN same([wrote EXCEPT !.ret = "failed to apply patches"])
          ELSE IF fails = "suggestionRepo.Update"
          THEN Returns([wrote EXCEPT !.ret = "failed to update"],
                       wss, snaps, suggestions, wd, sdiff, truth)
          ELSE Returns([wrote EXCEPT !.ret = ErrNil], wss, snaps,
                       [suggestions EXCEPT ![1].AppliedHunks = @ \o appliedHunks],
                       wd, sdiff,
                       [truth EXCEPT !.applied = @ \cup {patches[i] : i \in DOMAIN patches}])

AppendDismissedAsApplied(suggestion, dismissedHunks) ==
    [suggestion EXCEPT !.DismissedHunks = @ \o dismissedHunks,
                       !.AppliedHunks = @ \o dismissedHunks]

\* suggestion.DismissedHunks = append(suggestion.DismissedHunks, dismissedHunks...)
AppendDismissed(suggestion, dismissedHunks) ==
    [suggestion EXCEPT !.DismissedHunks = @ \o dismissedHunks]

\* Service.DismissHunks
DismissHunks(hunkIDs, fails) ==
    LET suggestion == suggestions[1]
        originalWorkspace == workspaces[Get(workspaces, suggestion.ForWorkspaceID)]
        fileDiffs == diffs(suggestion, originalWorkspace)
        selected == Selected(fileDiffs, hunkIDs)
        dismissedHunks == [i \in DOMAIN selected |-> selected[i].entry]
        call == [NoHunkCall EXCEPT !.op = "DismissHunks", !.ws = suggestion.ForWorkspaceID,
                                   !.ids = hunkIDs, !.fails = fails]
        read == [call EXCEPT !.steps = diffsSteps(suggestion, originalWorkspace),
                             !.diffs = fileDiffs]
        same(c) == Returns(c, workspaces, snapshots, suggestions, workdir, sdiff, truth)
    IN /\ hlast.n < MaxHunkCalls
       /\ fails \in {"", "workspaceService.GetByID", "suggestionRepo.Update"}
       /\ IF hunkIDs = {} THEN same([call EXCEPT !.ret = ErrNil])
          ELSE IF fails = "workspaceService.GetByID" THEN same([call EXCEPT !.ret = fails])
          ELSE IF fails = "suggestionRepo.Update"
          THEN same([read EXCEPT !.ret = "failed to update"])
          ELSE Returns([read EXCEPT !.ret = ErrNil], workspaces, snapshots,
                       [suggestions EXCEPT ![1] = AppendDismissed(@, dismissedHunks)],
                       workdir, sdiff,
                       [truth EXCEPT !.dismissed =
                           @ \cup {selected[i].patch : i \in DOMAIN selected}])

\* Service.RemovePatches.  vcs_workspace.RemoveWithPatches takes the patches
\* named out of the working tree, so the snapshot taken after it no longer
\* differs by them.
RemovePatches(patchIDs, fails) ==
    LET suggestion == suggestions[1]
        workspace == workspaces[Get(workspaces, suggestion.WorkspaceID)]
        originalWorkspace == workspaces[Get(workspaces, suggestion.ForWorkspaceID)]
        call == [NoHunkCall EXCEPT !.op = "RemovePatches", !.ws = suggestion.WorkspaceID,
                                   !.ids = patchIDs, !.fails = fails]
        read == [call EXCEPT !.steps = diffsSteps(suggestion, originalWorkspace),
                             !.diffs = diffs(suggestion, originalWorkspace)]
        snap == Snapshot(workspace.ID, "file_undo_patch", EmptyTree)
        same(c) == Returns(c, workspaces, snapshots, suggestions, workdir, sdiff, truth)
    IN /\ hlast.n < MaxHunkCalls
       /\ fails # "suggestionRepo.Update"
       /\ IF patchIDs = {} THEN same([call EXCEPT !.ret = ErrNil])
          ELSE IF fails = "workspaceService.GetByID" THEN same([call EXCEPT !.ret = fails])
          ELSE IF workspace.ViewID # Nil
          THEN IF fails = "snapshotter.Snapshot"
               THEN same([read EXCEPT !.path = "view", !.steps = @ \cup {"Write"},
                                      !.ret = "failed to apply patches"])
               ELSE Returns([read EXCEPT !.path = "view", !.steps = @ \cup {"Write"},
                                         !.ret = ErrNil],
                            snap.workspaces, snap.snapshots, suggestions, workdir,
                            sdiff \ patchIDs, truth)
          ELSE IF workspace.LatestSnapshotID # Nil
          THEN IF fails = "snapshotter.GetByID"
               THEN same([read EXCEPT !.path = "snapshot", !.ret = fails])
               \* service_snapshots.WithOnView(*workspace.ViewID), with
               \* workspace.ViewID == nil, after removePatches(repo)
               ELSE same([read EXCEPT !.path = "snapshot", !.steps = @ \cup {"Write"},
                                      !.ret = "panic"])
          ELSE same([read EXCEPT !.ret = "workspace has no view nor latest snapshot"])

\* EnterpriseService.PrepareBranchForPush
PrepareBranchForPush(workspaceID, ok) ==
    LET ws == workspaces[Get(workspaces, workspaceID)]
        call == [NoHunkCall EXCEPT !.op = "PrepareBranchForPush", !.ws = workspaceID]
        same(c) == Returns(c, workspaces, snapshots, suggestions, workdir, sdiff, truth)
    IN /\ hlast.n < MaxHunkCalls
       /\ IF ws.ViewID = Nil /\ ws.LatestSnapshotID # Nil
          THEN same([call EXCEPT !.path = "snapshot",
                                 !.steps = IF ok THEN {"GitWrite"} ELSE {},
                                 !.fails = IF ok THEN "" ELSE "snapshotter.GetByID",
                                 !.ret = IF ok THEN ErrNil
                                         ELSE "failed to prepare branch from snapshot"])
          ELSE IF ws.ViewID # Nil
          THEN same([call EXCEPT !.path = "view", !.steps = {"FileReadGitWrite"},
                                 !.fails = IF ok THEN "" ELSE "ExecView",
                                 !.ret = IF ok THEN ErrNil
                                         ELSE "failed to prepare branch from snapshot"])
          ELSE /\ ok
               /\ same([call EXCEPT !.ret = "workspace does not have either view nor snapshot"])

\* The suggester edits the suggesting workspace, which is snapshotted: its
\* diff against the fork-time snapshot gains or loses the hunk.
SuggesterEdit(h) ==
    /\ hlast.n < MaxHunkCalls
    /\ sdiff' = IF h \in sdiff THEN sdiff \ {h} ELSE sdiff \cup {h}
    /\ UNCHANGED <<workspaces, snapshots, suggestions, workdir, hlast, truth,
                   notifications, records, nrecord, interleave, created>>

\* memory.UpdateFields(ctx, workspaceID, SetViewID(nil)) or
\* SetLatestSnapshotID(nil): the workspace leaves its view, or its record
\* goes back to having no snapshot.
UnsetField(workspaceID, field) ==
    /\ hlast.n < MaxHunkCalls
    /\ workspaces[Get(workspaces, workspaceID)][field] # Nil
    /\ workspaces' = UpdateFields(workspaces, workspaceID, [f \in {field} |-> Nil])
    /\ UNCHANGED <<snapshots, suggestions, workdir, sdiff, hlast, truth,
                   notifications, records, nrecord, interleave, created>>

\* The hunk ids of a call: at most two, h0 being the id of no hunk.
HunkIDArgs == {ids \in SUBSET (HunkIDs \cup {"h0"}) : Cardinality(ids) <= 2}

NextHunks ==
    \/ \E fails \in {"", "workspaceService.GetByID"} :
          Diffs(fails) /\ UNCHANGED <<lockVars, queueVars, lateVars, views, wlast, mergeVars>>
    \/ \E ids \in HunkIDArgs, fails \in {"", "snapshotter.Snapshot", "suggestionRepo.Update"} :
          ApplyHunks(ids, fails) /\ UNCHANGED <<lockVars, queueVars, lateVars, views, wlast, mergeVars>>
    \/ \E ids \in HunkIDArgs, fails \in {"", "suggestionRepo.Update"} :
          DismissHunks(ids, fails) /\ UNCHANGED <<lockVars, queueVars, lateVars, views, wlast, mergeVars>>
    \/ \E ok \in BOOLEAN :
          /\ hlast.n < MaxHunkCalls
          /\ Dismiss(1, ok)
          /\ UNCHANGED <<lockVars, queueVars, lateVars, views, wlast, mergeVars, hunkVars>>
    \/ \E h \in {"h1", "h2"} :
          SuggesterEdit(h) /\ UNCHANGED <<lockVars, queueVars, lateVars, views, wlast, mergeVars>>
    \/ UnsetField("w1", "ViewID") /\ UNCHANGED <<lockVars, queueVars, lateVars, views, wlast, mergeVars>>

\* The calls that need a workspace to be editable, on workspaces with and
\* without a view and a latest snapshot.
NextEditable ==
    \/ \E ids \in HunkIDArgs, fails \in HunkFailures :
          ApplyHunks(ids, fails) /\ UNCHANGED <<lockVars, queueVars, lateVars, views, wlast, mergeVars>>
    \/ \E ids \in HunkIDArgs, fails \in HunkFailures :
          RemovePatches(ids, fails) /\ UNCHANGED <<lockVars, queueVars, lateVars, views, wlast, mergeVars>>
    \/ \E w \in {"w1", "sw1"}, ok \in BOOLEAN :
          PrepareBranchForPush(w, ok) /\ UNCHANGED <<lockVars, queueVars, lateVars, views, wlast, mergeVars>>
    \/ \E w \in {"w1", "sw1"}, field \in {"ViewID", "LatestSnapshotID"} :
          UnsetField(w, field) /\ UNCHANGED <<lockVars, queueVars, lateVars, views, wlast, mergeVars>>

\* A run of the calls on the hunks of a suggestion only.
InitHunksOnly ==
    /\ InitHunks("v2")
    /\ views = <<>>
    /\ wlast = <<>>
    /\ InitMergeUnused
    /\ InitLock
    /\ missing = {}
    /\ InitQueue
    /\ ~qsync
    /\ InitLateUnused

SpecHunks == InitHunksOnly /\ [][NextHunks]_vars

InitEditableOnly ==
    /\ \E sv \in {Nil, "v2"} : InitHunks(sv)
    /\ views = <<>>
    /\ wlast = <<>>
    /\ InitMergeUnused
    /\ InitLock
    /\ missing = {}
    /\ InitQueue
    /\ ~qsync
    /\ InitLateUnused

SpecEditable == InitEditableOnly /\ [][NextEditable]_vars

-----------------------------------------------------------------------------
(* Properties of the hunks of a suggestion. *)

\* The step is the return of a call of op on the hunks.
Called(op) == hlast'.n # hlast.n /\ hlast'.op = op

\* The hunks of the suggestion's diffs, as the state has them, that ids name.
SelectedNow(ids) ==
    Selected(diffs(suggestions[1], workspaces[Get(workspaces, "w1")]), ids)

\* C21: after ApplyHunks returns nil for a non-empty set of hunk ids,
\* applied_hunks has grown by exactly the (filename, index) entries of the
\* selected hunks, and the target workspace has a new latest snapshot that
\* contains the applied hunks, on a view or snapshot-only.
C21_AppliedAndResnapshotted ==
    [][(Called("ApplyHunks") /\ hlast'.ret = ErrNil /\ hlast'.ids # {}) =>
          LET sel == SelectedNow(hlast'.ids)
              latest == workspaces'[Get(workspaces', "w1")].LatestSnapshotID
          IN /\ suggestions'[1].AppliedHunks =
                   suggestions[1].AppliedHunks \o [i \in DOMAIN sel |-> sel[i].entry]
             /\ latest \notin {sn.ID : sn \in snapshots}
             /\ \E sn \in snapshots' :
                   /\ sn.ID = latest
                   /\ {sel[i].patch : i \in DOMAIN sel} \subseteq sn.Tree.has]_vars

\* C22: when the patch of a selected hunk does not apply to what the target
\* workspace holds, ApplyHunks returns an error, applies none of the selected
\* hunks, records no snapshot and leaves applied_hunks as it was.
C22_ApplyAllOrNothing ==
    [][(/\ Called("ApplyHunks")
        /\ \E i \in DOMAIN SelectedNow(hlast'.ids) :
              ~CanApplyPatch(Contents(workspaces[Get(workspaces, "w1")]),
                             SelectedNow(hlast'.ids)[i].patch)) =>
          /\ hlast'.ret \notin {ErrNil, "panic"}
          /\ workdir' = workdir
          /\ snapshots' = snapshots
          /\ workspaces' = workspaces
          /\ suggestions' = suggestions]_vars

\* ApplyHunks on a view was refused for two selected hunks, one that applies
\* and one that is outdated.
C22_Witness ==
    /\ hlast.op = "ApplyHunks"
    /\ hlast.path = "view"
    /\ hlast.ret = "failed to apply patches"
    /\ \E f \in DOMAIN hlast.diffs :
          \E i, j \in DOMAIN hlast.diffs[f].Hunks :
             /\ {hlast.diffs[f].Hunks[i].ID, hlast.diffs[f].Hunks[j].ID} \subseteq hlast.ids
             /\ hlast.diffs[f].Hunks[i].IsOutdated
             /\ ~hlast.diffs[f].Hunks[j].IsOutdated
             /\ ~hlast.diffs[f].Hunks[j].IsApplied
             /\ ~hlast.diffs[f].Hunks[j].IsDismissed

\* C23: when ApplyHunks fails, the target workspace record has the
\* latest_snapshot_id it had before, and the target never holds an applied
\* hunk that the ledger does not record.
C23_FailedApplyRolledBack ==
    [][Called("ApplyHunks") =>
          /\ hlast'.ret # ErrNil =>
                workspaces'[Get(workspaces', "w1")].LatestSnapshotID =
                   workspaces[Get(workspaces, "w1")].LatestSnapshotID
          /\ Contents(workspaces[Get(workspaces, "w1")])'.has \subseteq truth'.applied]_vars

\* C24: DismissHunks and Dismiss change nothing but dismissed_hunks and
\* dismissed_at of the suggestion: no workspace, snapshot or working tree, not
\* applied_hunks; DismissHunks runs no write step and takes no snapshot, and
\* succeeds, when nothing it calls fails, also for outdated hunks.
C24_DismissOnlyLedger ==
    [][(Called("DismissHunks") \/ suggestions'[1].DismissedAt # suggestions[1].DismissedAt) =>
          /\ workspaces' = workspaces
          /\ snapshots' = snapshots
          /\ workdir' = workdir
          /\ sdiff' = sdiff
          /\ \A f \in DOMAIN suggestions[1] \ {"DismissedHunks", "DismissedAt"} :
                suggestions'[1][f] = suggestions[1][f]
          /\ Called("DismissHunks") =>
                /\ hlast'.steps \subseteq {"GitRead", "Read"}
                /\ hlast'.fails = "" => hlast'.ret = ErrNil
                /\ hlast'.ret # ErrNil => suggestions' = suggestions]_vars

\* DismissHunks has dismissed an outdated hunk of a suggestion that Dismiss
\* had dismissed.
C24_Witness ==
    /\ hlast.op = "DismissHunks"
    /\ hlast.ret = ErrNil
    /\ suggestions[1].DismissedAt # Nil
    /\ \E f \in DOMAIN hlast.diffs :
          \E i \in DOMAIN hlast.diffs[f].Hunks :
             /\ hlast.diffs[f].Hunks[i].ID \in hlast.ids
             /\ hlast.diffs[f].Hunks[i].IsOutdated
             /\ HunkString(hlast.diffs[f].PreferredName, i - 1)
                   \in Range(suggestions[1].DismissedHunks)

\* C25: ApplyHunks and DismissHunks called with a hunk id that matches no
\* hunk of the suggestion's diffs return an error and change neither the
\* ledger nor a workspace.
C25_UnknownHunkIdRefused ==
    [][(/\ Called("ApplyHunks") \/ Called("DismissHunks")
        /\ \E id \in hlast'.ids :
              \A i \in DOMAIN SelectedNow(hlast'.ids) :
                 SelectedNow(hlast'.ids)[i].patch # id) =>
          /\ hlast'.ret # ErrNil
          /\ suggestions' = suggestions
          /\ workspaces' = workspaces
          /\ snapshots' = snapshots
          /\ workdir' = workdir]_vars

\* C26: neither applied_hunks nor dismissed_hunks ever holds the same
\* filename#index entry twice.
C26_LedgersAreSets ==
    /\ \A i, j \in DOMAIN suggestions[1].AppliedHunks :
          i # j => suggestions[1].AppliedHunks[i] # suggestions[1].AppliedHunks[j]
    /\ \A i, j \in DOMAIN suggestions[1].DismissedHunks :
          i # j => suggestions[1].DismissedHunks[i] # suggestions[1].DismissedHunks[j]

\* C27: whatever edits the suggesting workspace has had since, Diffs flags
\* as applied exactly the hunks that ApplyHunks applied and as dismissed
\* exactly the hunks that DismissHunks dismissed.
C27_EditsKeepLedger ==
    (hlast.op = "Diffs" /\ hlast.ret = ErrNil) =>
        \A f \in DOMAIN hlast.diffs :
           \A i \in DOMAIN hlast.diffs[f].Hunks :
              /\ hlast.diffs[f].Hunks[i].IsApplied <=>
                    hlast.diffs[f].Hunks[i].ID \in truth.applied
              /\ hlast.diffs[f].Hunks[i].IsDismissed <=>
                    hlast.diffs[f].Hunks[i].ID \in truth.dismissed

\* C28: Diffs flags a hunk as outdated if and only if it is flagged neither
\* applied nor dismissed and its patch does not apply to what the target
\* workspace holds, on a view or snapshot-only.
C28_OutdatedIffCannotApply ==
    [][(Called("Diffs") /\ hlast'.ret = ErrNil) =>
          \A f \in DOMAIN hlast'.diffs :
             \A i \in DOMAIN hlast'.diffs[f].Hunks :
                hlast'.diffs[f].Hunks[i].IsOutdated <=>
                   /\ ~hlast'.diffs[f].Hunks[i].IsApplied
                   /\ ~hlast'.diffs[f].Hunks[i].IsDismissed
                   /\ ~CanApplyPatch(Contents(workspaces[Get(workspaces, "w1")]),
                                     hlast'.diffs[f].Hunks[i].ID)]_vars

\* C29: RemovePatches on a suggesting workspace without a view and with a
\* latest snapshot, when nothing it calls fails, returns nil and leaves the
\* workspace a new latest snapshot of action file_undo_patch.
C29_RemovePatchesOffView ==
    [][(/\ Called("RemovePatches")
        /\ hlast'.ids # {}
        /\ hlast'.fails = ""
        /\ workspaces[Get(workspaces, "sw1")].ViewID = Nil
        /\ workspaces[Get(workspaces, "sw1")].LatestSnapshotID # Nil) =>
          /\ hlast'.ret = ErrNil
          /\ \E sn \in snapshots' \ snapshots :
                /\ sn.ID = workspaces'[Get(workspaces', "sw1")].LatestSnapshotID
                /\ sn.WorkspaceID = "sw1"
                /\ sn.Action = "file_undo_patch"]_vars

\* C30: PrepareBranchForPush, RemovePatches and ApplyHunks on a workspace
\* with neither a view nor a latest snapshot return an error, without a
\* crash, and run no repository step; with a view they take the view path,
\* with a snapshot and no view the snapshot path.
C30_NotEditableRefused ==
    [][(/\ hlast'.n # hlast.n
        /\ hlast'.op \in {"PrepareBranchForPush", "RemovePatches", "ApplyHunks"}
        /\ hlast'.op = "PrepareBranchForPush" \/ hlast'.ids # {}) =>
          LET ws == workspaces[Get(workspaces, hlast'.ws)]
          IN IF ws.ViewID # Nil THEN hlast'.path \in {"view", ""}
             ELSE IF ws.LatestSnapshotID # Nil THEN hlast'.path \in {"snapshot", ""}
             ELSE /\ hlast'.ret \notin {ErrNil, "panic"}
                  /\ hlast'.steps = {}]_vars

-----------------------------------------------------------------------------
(* The remaining packages.  Each of the specifications below runs calls of *)
(* one function or service and leaves the rest of the state alone.         *)

\* What no specification below touches.
beforeLate == <<lockVars, queueVars, workspaces, views, wlast, mergeVars,
                suggestVars, hunkVars>>

-----------------------------------------------------------------------------
(* vcs.ListChanges (package codebase/vcs).  A head log is the sequence of  *)
(* the commits reachable from HEAD, newest first; an entry carries its     *)
(* place in that log as its ID, and its raw commit message.               *)

\* limit = 100
DefaultLimit == 100

\* The raw commit messages in the logs: the root commit's, two that differ
\* from it in case and by a trailing newline, and another.
Messages == {"Root Commit", "root commit", "Root Commit\n", "fix"}

\* The logs ListChanges is called on: every log of up to MaxLogLen entries,
\* and logs longer than the default limit, all "fix" but for one place.
Logs ==
    UNION {[1..len -> Messages] : len \in 0..MaxLogLen}
    \cup {[i \in 1..len |-> IF i = at THEN m ELSE "fix"] :
             len \in {DefaultLimit, DefaultLimit + 1, DefaultLimit + 2},
             at \in {1, DefaultLimit, DefaultLimit + 1},
             m \in {"Root Commit", "fix"}}

\* The entries of a log.
LogEntries(log) == [i \in DOMAIN log |-> [ID |-> i, RawCommitMessage |-> log[i]]]

\* repo.LogHead(limit): the first limit entries of the head log.
LogHead(log, limit) ==
    SubSeq(LogEntries(log), 1, IF limit < Len(log) THEN limit ELSE Len(log))

KeepAll(e) == FALSE

\* e.RawCommitMessage == "Root Commit"
IsRootCommit(e) == e.RawCommitMessage = "Root Commit"

\* for _, e := range changeLog: continue, or append e to filteredLog
Kept(e) == ~IsRootCommit(e)

Filtered(changeLog) == SelectSeq(changeLog, Kept)

NoListCall == [n |-> 0, op |-> "", log |-> <<>>, limit |-> 0, ret |-> <<>>,
               err |-> ErrNil]

\* vcs.ListChanges(repo, limit); LogHead fails when ~ok.
ListChanges(log, limit, ok) ==
    /\ flast.n < MaxListCalls
    /\ LET lim == IF limit < 1 THEN DefaultLimit ELSE limit
           call == [NoListCall EXCEPT !.n = flast.n + 1, !.op = "ListChanges",
                                      !.log = log, !.limit = limit]
       IN flast' = IF ~ok THEN [call EXCEPT !.err = "failed to get changes"]
                   ELSE [call EXCEPT !.ret = Filtered(LogHead(log, lim))]
    /\ UNCHANGED <<aclState, prImporting, apis, remotes, vqueue, vevents>>

Limits == {-1, 0, 1, 2, 3, DefaultLimit - 1, DefaultLimit, DefaultLimit + 1}

NextList ==
    \E log \in Logs, limit \in Limits, ok \in BOOLEAN :
        ListChanges(log, limit, ok) /\ UNCHANGED beforeLate

InitListOnly ==
    /\ aclState = <<>>
    /\ prImporting = FALSE
    /\ apis = <<>>
    /\ remotes = <<>>
    /\ vqueue = <<>>
    /\ vevents = <<>>
    /\ flast = NoListCall
    /\ workspaces = <<>>
    /\ views = <<>>
    /\ wlast = <<>>
    /\ InitMergeUnused
    /\ InitSuggestUnused
    /\ InitHunksUnused
    /\ InitLock
    /\ missing = {}
    /\ InitQueue
    /\ ~qsync

SpecList == InitListOnly /\ [][NextList]_vars

\* C31: ListChanges takes a limit below 1 as 100 and returns the first
\* entries of the head log, up to the limit, in their order, without the
\* entries whose raw commit message is exactly "Root Commit": it returns no
\* such entry and no more entries than the limit.
C31_ListChangesFiltersRoot ==
    (flast.op = "ListChanges" /\ flast.err = ErrNil) =>
        LET lim == IF flast.limit < 1 THEN 100 ELSE flast.limit
            shown == {i \in DOMAIN flast.log : i <= lim /\ flast.log[i] # "Root Commit"}
        IN /\ Len(flast.ret) = Cardinality(shown)
           /\ Len(flast.ret) <= lim
           /\ \A k \in DOMAIN flast.ret :
                 /\ flast.ret[k].ID \in shown
                 /\ flast.ret[k].RawCommitMessage = flast.log[flast.ret[k].ID]
                 /\ \A j \in DOMAIN flast.ret : j < k => flast.ret[j].ID < flast.ret[k].ID

\* ListChanges without a limit on a log of more than 100 entries whose 100th
\* is the root commit: 99 entries returned.
C31_Witness ==
    /\ flast.op = "ListChanges"
    /\ flast.err = ErrNil
    /\ flast.limit < 1
    /\ Len(flast.log) > 100
    /\ flast.log[100] = "Root Commit"
    /\ Len(flast.ret) = 99

-----------------------------------------------------------------------------
(* primaryPullRequest (package github/enterprise/service).                 *)

PullRequestStates == {"open", "closed", "merged"}

\* A pull request of the list: its place in the list as given, its state,
\* whether it comes from a fork, and when it was created.
PullRequests(i) ==
    [ID : {i}, State : PullRequestStates, Fork : BOOLEAN, CreatedAt : 1..MaxCreatedAt]

\* The lists primaryPullRequest is called on.
PullRequestLists ==
    UNION {{prs \in [1..len -> UNION {PullRequests(i) : i \in 1..len}] :
               \A i \in 1..len : prs[i].ID = i} : len \in 0..MaxPRs}

\* The priority the comment of primaryPullRequest gives: forks over non-forks.
lessForksFirst(a, b) ==
    IF a.State = "open" /\ b.State # "open" THEN TRUE
    ELSE IF a.State # "open" /\ b.State = "open" THEN FALSE
    ELSE IF a.Fork /\ ~b.Fork THEN TRUE
    ELSE IF ~a.Fork /\ b.Fork THEN FALSE
    ELSE a.CreatedAt > b.CreatedAt

\* The less function primaryPullRequest sorts by.
less(a, b) ==
    IF a.State = "open" /\ b.State # "open" THEN TRUE
    ELSE IF a.State # "open" /\ b.State = "open" THEN FALSE
    ELSE IF ~a.Fork /\ b.Fork THEN TRUE
    ELSE IF a.Fork /\ ~b.Fork THEN FALSE
    ELSE a.CreatedAt > b.CreatedAt

\* x put into the sorted s before the first element it is less than.
RECURSIVE InsertStable(_, _)
InsertStable(s, x) ==
    IF s = <<>> THEN <<x>>
    ELSE IF less(x, Head(s)) THEN <<x>> \o s
    ELSE <<Head(s)>> \o InsertStable(Tail(s), x)

\* sort.SliceStable(prs, less)
RECURSIVE SliceStable(_)
SliceStable(prs) ==
    IF prs = <<>> THEN <<>>
    ELSE InsertStable(SliceStable(SubSeq(prs, 1, Len(prs) - 1)), prs[Len(prs)])

NoPrimaryCall == [n |-> 0, op |-> "", prs |-> <<>>, sorted |-> <<>>, err |-> ErrNil]

\* primaryPullRequest(prs): the first of the sorted list, or ErrNotFound.
primaryPullRequest(prs) ==
    /\ flast.n < MaxListCalls
    /\ flast' = [n |-> flast.n + 1, op |-> "primaryPullRequest", prs |-> prs,
                 sorted |-> SliceStable(prs),
                 err |-> IF Len(prs) > 0 THEN ErrNil ELSE "ErrNotFound"]
    /\ UNCHANGED <<aclState, prImporting, apis, remotes, vqueue, vevents>>

NextPrimary ==
    \E prs \in PullRequestLists : primaryPullRequest(prs) /\ UNCHANGED beforeLate

InitPrimaryOnly ==
    /\ aclState = <<>>
    /\ prImporting = FALSE
    /\ apis = <<>>
    /\ remotes = <<>>
    /\ vqueue = <<>>
    /\ vevents = <<>>
    /\ flast = NoPrimaryCall
    /\ workspaces = <<>>
    /\ views = <<>>
    /\ wlast = <<>>
    /\ InitMergeUnused
    /\ InitSuggestUnused
    /\ InitHunksUnused
    /\ InitLock
    /\ missing = {}
    /\ InitQueue
    /\ ~qsync

SpecPrimary == InitPrimaryOnly /\ [][NextPrimary]_vars

-----------------------------------------------------------------------------
(* The function NewViewUpdatedFunc returns (package view/meta).            *)

\* The views the function is called for.
UpdatedViews ==
    {[ID |-> "v1", CodebaseID |-> "c", WorkspaceID |-> "w1"],
     [ID |-> "v2", CodebaseID |-> "c/v", WorkspaceID |-> "w2"]}

SnapshotActions == {"view_sync", "file_undo_change"}

\* The calls of the function that can fail.
ViewUpdatedFailures ==
    {"", "workspace_meta.Updated", "snapshotterQueue.Enqueue", "eventsSender.Codebase"}

NoViewCall == [n |-> 0, pc |-> "idle", view |-> Nil, action |-> "", fails |-> "",
               did |-> <<>>, err |-> ErrNil]

KeepGoing(err, next) == next

\* if err != nil { return fmt.Errorf(...) }
OrReturn(err, next) == IF err # ErrNil THEN "returned" ELSE next

\* What the step named call returns in the call under way.
StepErr(call) == IF flast.fails = call THEN "err: " \o call ELSE ErrNil

\* A step of the function: it has run unless it failed, and the function
\* returns its error or goes on.
ViewStep(call, name, next) ==
    flast' = [flast EXCEPT
                 !.pc = OrReturn(StepErr(call), next),
                 !.did = IF StepErr(call) = ErrNil THEN Append(@, name) ELSE @,
                 !.err = IF StepErr(call) = ErrNil THEN @ ELSE StepErr(call)]

\* The function is called for a view and an action.
ViewUpdatedCall(view, action, fails) ==
    /\ flast.pc \in {"idle", "returned"}
    /\ flast.n < MaxViewCalls
    /\ flast' = [NoViewCall EXCEPT !.n = flast.n + 1, !.pc = "meta", !.view = view,
                                   !.action = action, !.fails = fails]
    /\ UNCHANGED <<aclState, prImporting, apis, remotes, vqueue, vevents>>

\* workspace_meta.Updated(workspaceReader, workspaceWriter, view.WorkspaceID)
ViewUpdatedMeta ==
    /\ flast.pc = "meta"
    /\ ViewStep("workspace_meta.Updated", "Updated", "enqueue")
    /\ UNCHANGED <<aclState, prImporting, apis, remotes, vqueue, vevents>>

\* snapshotterQueue.Enqueue(ctx, view.CodebaseID, view.ID, view.WorkspaceID,
\* []string{"."}, action)
ViewUpdatedEnqueue ==
    /\ flast.pc = "enqueue"
    /\ ViewStep("snapshotterQueue.Enqueue", "Enqueue", "send")
    /\ vqueue' = IF StepErr("snapshotterQueue.Enqueue") # ErrNil THEN vqueue
                 ELSE Append(vqueue, [CodebaseID |-> flast.view.CodebaseID,
                                      ViewID |-> flast.view.ID,
                                      WorkspaceID |-> flast.view.WorkspaceID,
                                      Paths |-> <<".">>, Action |-> flast.action])
    /\ UNCHANGED <<aclState, prImporting, apis, remotes, vevents>>

\* eventsSender.Codebase(view.CodebaseID, events.ViewUpdated, view.ID);
\* return nil
ViewUpdatedSend ==
    /\ flast.pc = "send"
    /\ ViewStep("eventsSender.Codebase", "ViewUpdated", "returned")
    /\ vevents' = IF StepErr("eventsSender.Codebase") # ErrNil THEN vevents
                  ELSE Append(vevents, [CodebaseID |-> flast.view.CodebaseID,
                                        Type |-> "ViewUpdated",
                                        Reference |-> flast.view.ID])
    /\ UNCHANGED <<aclState, prImporting, apis, remotes, vqueue>>

NextViewUpdated ==
    \/ \E view \in UpdatedViews, action \in SnapshotActions, fails \in ViewUpdatedFailures :
          ViewUpdatedCall(view, action, fails) /\ UNCHANGED beforeLate
    \/ ViewUpdatedMeta /\ UNCHANGED beforeLate
    \/ ViewUpdatedEnqueue /\ UNCHANGED beforeLate
    \/ ViewUpdatedSend /\ UNCHANGED beforeLate

InitViewUpdatedOnly ==
    /\ aclState = <<>>
    /\ prImporting = FALSE
    /\ apis = <<>>
    /\ remotes = <<>>
    /\ vqueue = <<>>
    /\ vevents = <<>>
    /\ flast = NoViewCall
    /\ workspaces = <<>>
    /\ views = <<>>
    /\ wlast = <<>>
    /\ InitMergeUnused
    /\ InitSuggestUnused
    /\ InitHunksUnused
    /\ InitLock
    /\ missing = {}
    /\ InitQueue
    /\ ~qsync

SpecViewUpdated == InitViewUpdatedOnly /\ [][NextViewUpdated]_vars

\* C38: a call of the view-updated function writes the workspace's updated
\* meta, then enqueues one snapshot job for its codebase, view, workspace
\* and action, then publishes ViewUpdated on the codebase; a step that fails
\* ends the call with an error and none of the later steps run, so that no
\* ViewUpdated is published by a call that has not enqueued its job.
C38_ViewUpdatedInOrder ==
    [][/\ Len(flast'.did) > Len(flast.did) /\ flast'.n = flast.n =>
             \E k \in 1..3 :
                /\ flast.did = SubSeq(<<"Updated", "Enqueue", "ViewUpdated">>, 1, k - 1)
                /\ flast'.did = SubSeq(<<"Updated", "Enqueue", "ViewUpdated">>, 1, k)
                /\ flast.err = ErrNil
       /\ vqueue' # vqueue =>
             /\ flast.did = <<"Updated">> /\ flast'.did = <<"Updated", "Enqueue">>
             /\ Len(vqueue') = Len(vqueue) + 1
             /\ SubSeq(vqueue', 1, Len(vqueue)) = vqueue
             /\ LET job == vqueue'[Len(vqueue')]
                IN /\ job.CodebaseID = flast.view.CodebaseID
                   /\ job.ViewID = flast.view.ID
                   /\ job.WorkspaceID = flast.view.WorkspaceID
                   /\ job.Action = flast.action
       /\ vevents' # vevents =>
             /\ flast.did = <<"Updated", "Enqueue">>
             /\ flast.err = ErrNil
             /\ vevents' = Append(vevents, [CodebaseID |-> flast.view.CodebaseID,
                                            Type |-> "ViewUpdated",
                                            Reference |-> flast.view.ID])
       /\ (flast'.pc = "returned" /\ flast.pc # "returned") =>
             IF flast'.fails = ""
             THEN flast'.err = ErrNil /\ flast'.did = <<"Updated", "Enqueue", "ViewUpdated">>
             ELSE flast'.err # ErrNil /\ Len(flast'.did) < 3
                  /\ vqueue' = vqueue /\ vevents' = vevents]_vars

\* A call whose enqueue failed has returned its error after the meta write
\* alone, after a call that ran the three steps.
C38_Witness ==
    /\ flast.n = 2
    /\ flast.pc = "returned"
    /\ flast.fails = "snapshotterQueue.Enqueue"
    /\ flast.err # ErrNil
    /\ flast.did = <<"Updated">>
    /\ Len(vqueue) = 1
    /\ Len(vevents) = 1

-----------------------------------------------------------------------------
(* The remote of a codebase (package remote/enterprise/service): SetRemote *)
(* stores it, Push, PushTrunk and Pull talk to it.                         *)

\* SetRemoteInput: the user names and passwords given, one pair with the
\* two alike.
BasicAuthUsernames == {"git", "hunter2"}
BasicAuthPasswords == {"hunter2", "s3cret"}

SetRemoteInputs ==
    [Name : {"origin"}, URL : {"https://git.example.com/repo.git"},
     BasicAuthUsername : BasicAuthUsernames, BasicAuthPassword : BasicAuthPasswords,
     TrackedBranch : {"main"}]

\* svc.repo.GetByCodebaseID: a codebase without a remote gives sql.ErrNoRows.
HasRemote(codebaseID) == codebaseID \in DOMAIN remotes

\* EnterpriseService.SetRemote: the stored remote takes the fields of the
\* input, or a remote is created with them; repo.Update or repo.Create
\* fails when ~ok.
SetRemote(codebaseID, input, ok) ==
    /\ flast.n < MaxRemoteCalls
    /\ remotes' =
          IF ~ok THEN remotes
          ELSE [c \in DOMAIN remotes \cup {codebaseID} |->
                   IF c # codebaseID THEN remotes[c]
                   ELSE [ID |-> "remote-" \o codebaseID, CodebaseID |-> codebaseID,
                         Name |-> input.Name, URL |-> input.URL,
                         BasicAuthUsername |-> input.BasicAuthUsername,
                         BasicAuthPassword |-> input.BasicAuthPassword,
                         TrackedBranch |-> input.TrackedBranch]]
    /\ UNCHANGED <<aclState, prImporting, apis, vqueue, vevents, flast>>

\* git.NewCredentialUserpassPlaintext(username, password)
newCredentialsCallback(username, password) ==
    [Username |-> username, Password |-> password]

\* The callback Push, PushTrunk and Pull hand to the repository.
RemoteCredentials(rem) ==
    newCredentialsCallback(rem.BasicAuthPassword, rem.BasicAuthPassword)

NoRemoteCall == [n |-> 0, op |-> "", codebaseID |-> "", asked |-> FALSE,
                 url |-> "", refspec |-> "",
                 cred |-> newCredentialsCallback("", ""),
                 username |-> "", password |-> "", err |-> ErrNil]

\* The call of the repository with the remote's URL, the credentials and the
\* refspec; it fails when ~ok.
RemoteCall(op, codebaseID, refspec, ok) ==
    IF ~HasRemote(codebaseID)
    THEN [NoRemoteCall EXCEPT !.n = flast.n + 1, !.op = op, !.codebaseID = codebaseID,
                              !.err = "could not get remote"]
    ELSE [NoRemoteCall EXCEPT
             !.n = flast.n + 1, !.op = op, !.codebaseID = codebaseID,
             !.asked = TRUE, !.url = remotes[codebaseID].URL, !.refspec = refspec,
             !.cred = RemoteCredentials(remotes[codebaseID]),
             !.username = remotes[codebaseID].BasicAuthUsername,
             !.password = remotes[codebaseID].BasicAuthPassword,
             !.err = IF ok THEN ErrNil ELSE "failed to " \o op]

\* EnterpriseService.Push: the remote, PrepareBranchForPush (fails when
\* ~prepared), then PushRemoteUrlWithRefspec.
Push(codebaseID, workspaceID, prepared, ok) ==
    /\ flast.n < MaxRemoteCalls
    /\ flast' =
          IF HasRemote(codebaseID) /\ ~prepared
          THEN [NoRemoteCall EXCEPT !.n = flast.n + 1, !.op = "Push",
                                    !.codebaseID = codebaseID,
                                    !.err = "failed to prepare branch"]
          ELSE RemoteCall("Push", codebaseID,
                          "+refs/heads/sturdy-" \o workspaceID \o
                             ":refs/heads/sturdy-" \o workspaceID, ok)
    /\ UNCHANGED <<aclState, prImporting, apis, remotes, vqueue, vevents>>

\* EnterpriseService.PushTrunk
PushTrunk(codebaseID, ok) ==
    /\ flast.n < MaxRemoteCalls
    /\ flast' = RemoteCall("PushTrunk", codebaseID,
                           IF HasRemote(codebaseID)
                           THEN "refs/heads/sturdytrunk:refs/heads/" \o
                                   remotes[codebaseID].TrackedBranch
                           ELSE "", ok)
    /\ UNCHANGED <<aclState, prImporting, apis, remotes, vqueue, vevents>>

\* EnterpriseService.Pull, its call of FetchUrlRemoteWithCreds; what follows
\* the fetch is PullFetch and PullUnset.
Pull(codebaseID, ok) ==
    /\ flast.n < MaxRemoteCalls
    /\ flast' = RemoteCall("Pull", codebaseID,
                           IF HasRemote(codebaseID)
                           THEN "+refs/heads/" \o remotes[codebaseID].TrackedBranch \o
                                   ":refs/heads/sturdytrunk"
                           ELSE "", ok)
    /\ UNCHANGED <<aclState, prImporting, apis, remotes, vqueue, vevents>>

NextRemote ==
    \/ \E c \in CodebaseIDs, input \in SetRemoteInputs, ok \in BOOLEAN :
          SetRemote(c, input, ok) /\ UNCHANGED beforeLate
    \/ \E c \in CodebaseIDs, prepared \in BOOLEAN, ok \in BOOLEAN :
          Push(c, "w1", prepared, ok) /\ UNCHANGED beforeLate
    \/ \E c \in CodebaseIDs, ok \in BOOLEAN : PushTrunk(c, ok) /\ UNCHANGED beforeLate
    \/ \E c \in CodebaseIDs, ok \in BOOLEAN : Pull(c, ok) /\ UNCHANGED beforeLate

InitRemoteOnly ==
    /\ aclState = <<>>
    /\ prImporting = FALSE
    /\ apis = <<>>
    /\ remotes = <<>>
    /\ vqueue = <<>>
    /\ vevents = <<>>
    /\ flast = NoRemoteCall
    /\ workspaces = <<>>
    /\ views = <<>>
    /\ wlast = <<>>
    /\ InitMergeUnused
    /\ InitSuggestUnused
    /\ InitHunksUnused
    /\ InitLock
    /\ missing = {}
    /\ InitQueue
    /\ ~qsync

SpecRemote == InitRemoteOnly /\ [][NextRemote]_vars

\* C39: when Push, PushTrunk or Pull calls the remote, the credentials it
\* offers are the stored remote's BasicAuthUsername as the user name and its
\* BasicAuthPassword as the password.
C39_RemoteCredentials ==
    (flast.op \in {"Push", "PushTrunk", "Pull"} /\ flast.asked) =>
        /\ flast.cred.Username = flast.username
        /\ flast.cred.Password = flast.password

-----------------------------------------------------------------------------
(* The allower of a request (package auth/service, allower.go).  An allower
   is the list of file patterns it was compiled from, taken as a set: it
   allows a path that any of its patterns matches, "*" matches every path,
   and an allower without patterns allows nothing. *)

FilePatterns == {"*", "docs/*"}

PatternLists == {<<>>} \cup {<<p>> : p \in FilePatterns}

NewAllower(patterns) == [Patterns |-> Range(patterns)]

allAllowed == NewAllower(<<"*">>)

noneAllowed == NewAllower(<<>>)

AllowsEverything(allower) == "*" \in allower.Patterns

\* What Policy.List returns for an identity: the file patterns the policy
\* lists for it.
NoPolicy == [Found |-> FALSE, ByEmail |-> <<>>, ByID |-> <<>>]

Policies ==
    {NoPolicy} \cup [Found : {TRUE}, ByEmail : PatternLists, ByID : PatternLists]

AclStates == [IsPublic : BOOLEAN, Policy : Policies, UserFound : BOOLEAN]

SubjectTypes == {"user", "ci", "anonymous", "mutagen"}

NoSubject == [Type |-> Nil, ID |-> Nil]

Subjects == {NoSubject} \cup [Type : SubjectTypes, ID : {"u1", "ch1"}]

NilObject == [Type |-> Nil, ID |-> Nil]

Objects ==
    {NilObject}
        \cup [Type : {"Change"}, ID : {"ch1", "ch2"}]
        \cup [Type : {"Codebase", "Workspace", "Suggestion", "View"}, ID : {"o1"}]

AllowerFailures ==
    {"", "codebaseService.GetByID", "aclProvider.GetByCodebaseID",
     "userService.GetByID"}

Allowed(allower) == [allower |-> allower, err |-> ""]

NotAllowed(err) == [allower |-> [Patterns |-> {Nil}], err |-> err]

getCIAllowerAnyChange(changeID, change) == Allowed(allAllowed)

getCIAllower(changeID, change) ==
    IF changeID # change.ID THEN Allowed(noneAllowed) ELSE Allowed(allAllowed)

getAnonymousCodebaseAllower(st) ==
    IF st.IsPublic THEN Allowed(allAllowed) ELSE Allowed(noneAllowed)

getAnonymousObjectAllower(st, fails) ==
    IF fails = "codebaseService.GetByID"
    THEN NotAllowed("failed to get codebase")
    ELSE getAnonymousCodebaseAllower(st)

getUserCodebaseAllower(st, fails) ==
    IF ~st.Policy.Found THEN Allowed(noneAllowed)
    ELSE IF fails = "aclProvider.GetByCodebaseID"
    THEN NotAllowed("failed to get acl policy")
    ELSE IF ~st.UserFound THEN Allowed(noneAllowed)
    ELSE IF fails = "userService.GetByID"
    THEN NotAllowed("failed to get user")
    ELSE Allowed(NewAllower(st.Policy.ByEmail \o st.Policy.ByID))

getUserObjectAllower(st, fails) ==
    IF fails = "codebaseService.GetByID"
    THEN NotAllowed("failed to get codebase")
    ELSE getUserCodebaseAllower(st, fails)

GetAllowerResult(st, subject, obj, fails) ==
    IF obj = NilObject THEN Allowed(noneAllowed)
    ELSE IF subject = NoSubject THEN Allowed(noneAllowed)
    ELSE IF subject.Type = "mutagen" THEN Allowed(allAllowed)
    ELSE IF subject.Type = "user" /\ obj.Type = "Codebase"
    THEN getUserCodebaseAllower(st, fails)
    ELSE IF subject.Type = "user"
            /\ obj.Type \in {"Change", "Workspace", "Suggestion"}
    THEN getUserObjectAllower(st, fails)
    ELSE IF subject.Type = "ci" /\ obj.Type = "Change"
    THEN getCIAllower(subject.ID, obj)
    ELSE IF subject.Type = "anonymous" /\ obj.Type \in {"Change", "Workspace"}
    THEN getAnonymousObjectAllower(st, fails)
    ELSE Allowed(noneAllowed)

NoAllowerCall ==
    [n |-> 0, subject |-> NoSubject, obj |-> NilObject, fails |-> "",
     allower |-> noneAllowed, err |-> ""]

GetAllower(subject, obj, fails) ==
    /\ flast.n < MaxAllowerCalls
    /\ LET res == GetAllowerResult(aclState, subject, obj, fails)
       IN flast' = [n |-> flast.n + 1, subject |-> subject, obj |-> obj,
                    fails |-> fails, allower |-> res.allower, err |-> res.err]
    /\ UNCHANGED <<aclState, prImporting, apis, remotes, vqueue, vevents>>

NextAllower ==
    \E subject \in Subjects, obj \in Objects, fails \in AllowerFailures :
        GetAllower(subject, obj, fails) /\ UNCHANGED beforeLate

InitAllowerOnly ==
    /\ aclState \in AclStates
    /\ prImporting = FALSE
    /\ apis = <<>>
    /\ remotes = <<>>
    /\ vqueue = <<>>
    /\ vevents = <<>>
    /\ flast = NoAllowerCall
    /\ workspaces = <<>>
    /\ views = <<>>
    /\ wlast = <<>>
    /\ InitMergeUnused
    /\ InitSuggestUnused
    /\ InitHunksUnused
    /\ InitLock
    /\ missing = {}
    /\ InitQueue
    /\ ~qsync

SpecAllower == InitAllowerOnly /\ [][NextAllower]_vars

AllowerCalled == flast.n > 0

AllowerLookupsOk == flast.fails = ""

\* The cases the rules name for everything: a mutagen subject, a CI subject
\* on the change of its own id, an anonymous subject on a change or workspace
\* of a public codebase.
EverythingByRule ==
    /\ flast.obj # NilObject
    /\ \/ flast.subject.Type = "mutagen"
       \/ /\ flast.subject.Type = "ci"
          /\ flast.obj.Type = "Change"
          /\ flast.subject.ID = flast.obj.ID
       \/ /\ flast.subject.Type = "anonymous"
          /\ flast.obj.Type \in {"Change", "Workspace"}
          /\ aclState.IsPublic

\* A user on a codebase, change, workspace or suggestion, found, whose
\* codebase has a policy that lists "*" for the user by email or by id.
EverythingByPolicy ==
    /\ flast.subject.Type = "user"
    /\ flast.obj.Type \in {"Codebase", "Change", "Workspace", "Suggestion"}
    /\ aclState.Policy.Found
    /\ aclState.UserFound
    /\ "*" \in Range(aclState.Policy.ByEmail \o aclState.Policy.ByID)

\* The cases that get nothing: no object, no subject, an anonymous subject
\* on a codebase that is not public, a CI subject on another change, a user
\* without policy or without record, a pair of subject and object without
\* a rule.
NothingByRule ==
    \/ flast.obj = NilObject
    \/ flast.subject = NoSubject
    \/ /\ flast.subject.Type = "anonymous"
       /\ flast.obj.Type \in {"Change", "Workspace"}
       /\ ~aclState.IsPublic
    \/ /\ flast.subject.Type = "ci"
       /\ flast.obj.Type = "Change"
       /\ flast.subject.ID # flast.obj.ID
    \/ /\ flast.subject.Type = "user"
       /\ flast.obj.Type \in {"Codebase", "Change", "Workspace", "Suggestion"}
       /\ (~aclState.Policy.Found \/ ~aclState.UserFound)
    \/ /\ flast.subject.Type = "user"
       /\ flast.obj.Type = "View"
    \/ /\ flast.subject.Type = "ci"
       /\ flast.obj.Type # "Change"
    \/ /\ flast.subject.Type = "anonymous"
       /\ flast.obj.Type \notin {"Change", "Workspace"}

ReturnsNothing == flast.err = "" /\ flast.allower = noneAllowed

ReturnsEverything == flast.err = "" /\ AllowsEverything(flast.allower)

-----------------------------------------------------------------------------
(* Service.MergePullRequest and Service.UpdatePullRequestFromGitHub         *)
(* (pull_request.go).  A handler is either an API call of MergePullRequest  *)
(* or a webhook delivery; both end in UpdatePullRequestFromGitHub, whose    *)
(* merged branch runs the steps of mergePullRequest above.  merges[h].pr is *)
(* pr.State of the handler's own copy of the pull request, prState the      *)
(* stored row.                                                              *)

\* What GitHub says of a pull request: its state and whether it is merged.
GitHubOpen == [State |-> "open", Merged |-> FALSE]

GitHubClosed == [State |-> "closed", Merged |-> FALSE]

GitHubMerged == [State |-> "closed", Merged |-> TRUE]

GitHubOther == [State |-> "", Merged |-> FALSE]

getPRStateOpenOnly(apiPR) ==
    IF apiPR.State = "open" THEN "open"
    ELSE IF apiPR.Merged THEN "merged"
    ELSE "unknown"

getPRState(apiPR) ==
    IF apiPR.State = "open" THEN "open"
    ELSE IF apiPR.State = "closed"
    THEN IF apiPR.Merged THEN "merged" ELSE "closed"
    ELSE "unknown"

\* The message of GitHub's error body on a refused merge.
GitHubMessage == "At least 1 approving review is required"

\* setPRState assigns pr.State before it updates the row.
setPRState(state) == "merged"

UpdateFailures ==
    {"", "workspacesService.GetByID", "DescriptionFromPullRequest",
     "workspaceWriter.UpdateFields", "workspacesService.Unarchive",
     "svc.UpdatePullRequest", "gitHubPullRequestRepo.Update",
     "workspacesService.Archive", "mergePullRequest"}

\* updatePRFromGitHub: the stored state after it; a failing Update of the row
\* is logged and nil is returned.
updatePRFromGitHub(stored, gitHubPR, fails) ==
    IF fails = "gitHubPullRequestRepo.Update" THEN stored
    ELSE getPRState(gitHubPR)

DescriptionFromPullRequest(gitHubPR) == "from " \o gitHubPR.State \o " pr"

Archive(wss, workspaceID) ==
    UpdateFields(wss, workspaceID, [ArchivedAt |-> "now"])

Unarchive(wss, workspaceID) ==
    UpdateFields(wss, workspaceID, [ArchivedAt |-> Nil])

\* UpdatePullRequestFromGitHub on the handler's pull request (pr is its
\* pr.State) up to its return or to pullFromGitHubIfCommitNotExists of
\* mergePullRequest: the workspaces and the stored state it leaves, where the
\* handler stands and what it returned.
UpdateResult(wss, stored, importing, pr, gitHubPR, fails) ==
    LET ws == Get(wss, PR.WorkspaceID)
        newState == getPRState(gitHubPR)
        described ==
            IF importing
            THEN UpdateFields(wss, PR.WorkspaceID,
                     [DraftDescription |-> DescriptionFromPullRequest(gitHubPR)])
            ELSE wss
        opened ==
            IF newState = "open" /\ importing
            THEN Unarchive(described, PR.WorkspaceID)
            ELSE described
        updated == updatePRFromGitHub(stored, gitHubPR, fails)
        R(w, s, pc, ret) == [workspaces |-> w, prState |-> s, pc |-> pc, ret |-> ret]
    IN IF ws = 0 THEN R(wss, stored, "returned", ErrNil)
       ELSE IF fails = "workspacesService.GetByID"
       THEN R(wss, stored, "returned", "failed to get workspace from db")
       ELSE IF importing /\ fails = "DescriptionFromPullRequest"
       THEN R(wss, stored, "returned", "failed to build description")
       ELSE IF importing /\ fails = "workspaceWriter.UpdateFields"
       THEN R(wss, stored, "returned", "failed to update workspace")
       ELSE IF newState = "open" /\ importing
               /\ fails = "workspacesService.Unarchive"
       THEN R(described, stored, "returned", "failed to unarchive workspace")
       ELSE IF newState = "closed" /\ importing
       THEN IF fails = "workspacesService.Archive"
            THEN R(opened, updated, "returned", "failed to archive")
            ELSE R(Archive(opened, PR.WorkspaceID), updated, "returned", ErrNil)
       ELSE IF newState # "merged"
       THEN IF fails = "svc.UpdatePullRequest"
            THEN R(opened, stored, "returned", "failed to update pull request")
            ELSE R(opened, updated, "returned", ErrNil)
       ELSE IF pr = "merging" THEN R(opened, updated, "returned", ErrNil)
       ELSE IF fails = "mergePullRequest"
       THEN R(opened, stored, "returned", "failed to merge pull request")
       ELSE IF pr = "merged" /\ opened[ws].ChangeID # Nil
       THEN R(opened, updated, "returned", ErrNil)
       ELSE R(opened, stored, "check", "")

\* The handler h goes through UpdatePullRequestFromGitHub.
UpdatePullRequestFromGitHub(h, pr, gitHubPR, fails) ==
    LET res == UpdateResult(workspaces, prState, prImporting, pr, gitHubPR, fails)
    IN /\ workspaces' = res.workspaces
       /\ prState' = res.prState
       /\ merges' = [merges EXCEPT ![h] =
                        [IdleMerge EXCEPT !.pc = res.pc, !.ret = res.ret, !.pr = pr]]
       /\ flast' = [h |-> h, op |-> "UpdatePullRequestFromGitHub",
                    gitHubPR |-> gitHubPR, fails |-> fails,
                    before |-> workspaces, stored |-> prState]

NoPRCall ==
    [h |-> 0, op |-> "", gitHubPR |-> GitHubOpen, fails |-> "", before |-> <<>>,
     stored |-> ""]

\* What the webhook reports: GitHub's pull request as it is.
Deliveries ==
    IF apis.merged THEN {GitHubMerged}
    ELSE {GitHubOpen, GitHubClosed, GitHubOther}

\* A webhook delivery: the handler reads the row and calls
\* UpdatePullRequestFromGitHub.
Webhook(h, gitHubPR, fails) ==
    /\ merges[h].pc \in {"idle", "returned"}
    /\ nmerge < MaxPRCalls
    /\ gitHubPR \in Deliveries
    /\ nmerge' = nmerge + 1
    /\ UpdatePullRequestFromGitHub(h, prState, gitHubPR, fails)
    /\ UNCHANGED <<views, wlast, changes, trunkHead, remoteHead, pulls>>
    /\ UNCHANGED <<aclState, prImporting, apis, remotes, vqueue, vevents>>

\* The pull request is merged on GitHub by someone else.
GitHubMerge ==
    /\ ~apis.merged
    /\ apis' = [apis EXCEPT !.merged = TRUE]
    /\ UNCHANGED <<workspaces, views, wlast, mergeVars>>
    /\ UNCHANGED <<aclState, prImporting, remotes, vqueue, vevents, flast>>

MergeFailures == {"", "precondition", "gitHubPullRequestRepo.Update"}

\* MergePullRequest up to the first PullRequests.Get: the user, the GitHub
\* user and its token, the one open pull request of the workspace, the
\* repository and the installation; previousState := pr.State;
\* setPRState(ctx, pr, PullRequestStateMerging).
MergePullRequest(h, fails) ==
    /\ merges[h].pc \in {"idle", "returned"}
    /\ nmerge < MaxPRCalls
    /\ nmerge' = nmerge + 1
    /\ LET Refuse(err) ==
              /\ merges' = [merges EXCEPT ![h] =
                               [IdleMerge EXCEPT !.pc = "returned", !.ret = err,
                                                 !.pr = prState]]
              /\ UNCHANGED <<prState, apis>>
       IN IF fails = "precondition" THEN Refuse("failed precondition")
          ELSE IF prState # "open"
          THEN Refuse("unexpected number of open pull requests found")
          ELSE IF fails = "gitHubPullRequestRepo.Update"
          THEN /\ merges' = [merges EXCEPT ![h] =
                               [IdleMerge EXCEPT !.pc = "returned",
                                   !.ret = "failed to update pull request state",
                                   !.pr = setPRState("merging")]]
               /\ UNCHANGED <<prState, apis>>
          ELSE /\ prState' = setPRState("merging")
               /\ merges' = [merges EXCEPT ![h] =
                                [IdleMerge EXCEPT !.pc = "get",
                                                  !.pr = setPRState("merging")]]
               /\ apis' = [apis EXCEPT !.previousState[h] = prState]
    /\ flast' = [NoPRCall EXCEPT !.h = h, !.op = "MergePullRequest",
                                 !.fails = fails, !.stored = prState]
    /\ UNCHANGED <<workspaces, views, wlast, changes, trunkHead, remoteHead, pulls>>
    /\ UNCHANGED <<aclState, prImporting, remotes, vqueue, vevents>>

\* PullRequests.Get before the merge: err == nil && apiPR.GetMerged() goes to
\* UpdatePullRequestFromGitHub, everything else to the merge call.
MergeGet(h, ok, fails) ==
    /\ merges[h].pc = "get"
    /\ IF ok /\ apis.merged
       THEN UpdatePullRequestFromGitHub(h, merges[h].pr, GitHubMerged, fails)
       ELSE /\ merges' = [merges EXCEPT ![h].pc = "merge"]
            /\ UNCHANGED <<workspaces, prState, flast>>
    /\ UNCHANGED <<views, wlast, changes, trunkHead, remoteHead, nmerge, pulls>>
    /\ UNCHANGED <<aclState, prImporting, apis, remotes, vqueue, vevents>>

\* What PullRequests.Merge answers: the pull request merged; err == nil with
\* merged false; an error with a response of some status, with GitHub's
\* error body (a *gh.ErrorResponse) or without; an error with no response.
MergeAnswers ==
    {[merged |-> TRUE, err |-> FALSE, status |-> 200, body |-> FALSE],
     [merged |-> FALSE, err |-> FALSE, status |-> 200, body |-> FALSE]}
        \cup [merged : {FALSE}, err : {TRUE}, status : {405, 422}, body : BOOLEAN]
        \cup {[merged |-> FALSE, err |-> TRUE, status |-> 0, body |-> FALSE]}

\* The error of a failed merge call once the state is rolled back.
MergeError(answer) ==
    IF answer.status = 0 THEN "panic: nil pointer dereference"
    ELSE IF answer.status = 405 /\ answer.body THEN GitHubMessage
    ELSE "failed to merge pr"

\* PullRequests.Merge and what follows it up to the second PullRequests.Get.
MergeMerge(h, answer, fails) ==
    /\ merges[h].pc = "merge"
    /\ answer.merged => ~apis.merged
    /\ IF answer.merged
       THEN /\ apis' = [apis EXCEPT !.merged = TRUE]
            /\ merges' = [merges EXCEPT ![h].pc = "got"]
            /\ UNCHANGED prState
       ELSE IF fails = "gitHubPullRequestRepo.Update"
       THEN /\ merges' = [merges EXCEPT ![h].pc = "returned",
                             ![h].ret = "failed to update pull request state",
                             ![h].pr = setPRState(apis.previousState[h])]
            /\ UNCHANGED <<prState, apis>>
       ELSE /\ prState' = setPRState(apis.previousState[h])
            /\ merges' = [merges EXCEPT ![h].pc = "returned",
                             ![h].ret = IF answer.err THEN MergeError(answer)
                                        ELSE "pull request was not merged",
                             ![h].pr = setPRState(apis.previousState[h])]
            /\ UNCHANGED apis
    /\ flast' = [NoPRCall EXCEPT !.h = h, !.op = "PullRequests.Merge",
                                 !.gitHubPR = answer, !.fails = fails,
                                 !.stored = prState]
    /\ UNCHANGED <<workspaces, views, wlast, changes, trunkHead, remoteHead,
                   nmerge, pulls>>
    /\ UNCHANGED <<aclState, prImporting, remotes, vqueue, vevents>>

\* PullRequests.Get after the merge, then UpdatePullRequestFromGitHub.
MergeGot(h, ok, fails) ==
    /\ merges[h].pc = "got"
    /\ IF ok
       THEN UpdatePullRequestFromGitHub(h, merges[h].pr, GitHubMerged, fails)
       ELSE /\ merges' = [merges EXCEPT ![h].pc = "returned",
                                        ![h].ret = "failed to get pull request"]
            /\ UNCHANGED <<workspaces, prState, flast>>
    /\ UNCHANGED <<views, wlast, changes, trunkHead, remoteHead, nmerge, pulls>>
    /\ UNCHANGED <<aclState, prImporting, apis, remotes, vqueue, vevents>>

\* The steps of mergePullRequest, counted: the Changes created (the CI
\* enqueue follows each), the rounds of created-change activity and comment
\* migration, the archivings of the workspace.
Landed(h) ==
    [apis EXCEPT
        !.created = IF merges[h].pc = "create" /\ merges'[h].pc = "unset"
                    THEN @ + 1 ELSE @,
        !.activity = IF merges[h].pc = "activity" THEN @ + 1 ELSE @,
        !.archived = IF merges[h].pc = "archive" /\ merges'[h].pc = "returned"
                        /\ merges'[h].ret = ErrNil
                     THEN @ + 1 ELSE @]

MergeStep(h, ok) ==
    /\ \/ MergeCheck(h, ok)
       \/ MergeFetch(h, ok)
       \/ MergeCreateChange(h, ok)
       \/ MergeUnset(h) /\ ok
       \/ MergeActivity(h, ok)
       \/ MergeArchive(h, ok)
    /\ apis' = Landed(h)
    /\ UNCHANGED <<aclState, prImporting, remotes, vqueue, vevents, flast>>

PRWorkspace(archivedAt) ==
    [Workspace(PR.WorkspaceID, PR.CodebaseID, "alice") EXCEPT
        !.ArchivedAt = archivedAt, !.LatestSnapshotID = "s1"]
        @@ [DraftDescription |-> "draft"]

InitPR ==
    /\ workspaces \in {<<>>} \cup {<<PRWorkspace(at)>> : at \in {Nil, "then"}}
    /\ views = <<>>
    /\ wlast = <<>>
    /\ changes = {}
    /\ trunkHead = [c \in CodebaseIDs |-> 1]
    /\ remoteHead = [c \in CodebaseIDs |-> 2]
    /\ prState = "open"
    /\ merges = [h \in Handlers |-> IdleMerge]
    /\ nmerge = 0
    /\ pulls = IdlePull
    /\ prImporting \in BOOLEAN
    /\ apis = [merged |-> FALSE, previousState |-> [h \in Handlers |-> ""],
               created |-> 0, activity |-> 0, archived |-> 0]
    /\ flast = NoPRCall

NextPR ==
    \/ \E h \in Handlers, gitHubPR \in {GitHubOpen, GitHubClosed, GitHubMerged, GitHubOther},
          fails \in UpdateFailures :
          Webhook(h, gitHubPR, fails) /\ UNCHANGED <<lockVars, queueVars, suggestVars, hunkVars>>
    \/ GitHubMerge /\ UNCHANGED <<lockVars, queueVars, suggestVars, hunkVars>>
    \/ \E h \in Handlers, fails \in MergeFailures :
          MergePullRequest(h, fails) /\ UNCHANGED <<lockVars, queueVars, suggestVars, hunkVars>>
    \/ \E h \in Handlers, ok \in BOOLEAN, fails \in UpdateFailures :
          MergeGet(h, ok, fails) /\ UNCHANGED <<lockVars, queueVars, suggestVars, hunkVars>>
    \/ \E h \in Handlers, answer \in MergeAnswers, fails \in MergeFailures \ {"precondition"} :
          MergeMerge(h, answer, fails) /\ UNCHANGED <<lockVars, queueVars, suggestVars, hunkVars>>
    \/ \E h \in Handlers, ok \in BOOLEAN, fails \in UpdateFailures :
          MergeGot(h, ok, fails) /\ UNCHANGED <<lockVars, queueVars, suggestVars, hunkVars>>
    \/ \E h \in Handlers, ok \in BOOLEAN :
          MergeStep(h, ok) /\ UNCHANGED <<lockVars, queueVars, suggestVars, hunkVars>>

InitPROnly ==
    /\ InitPR
    /\ aclState = <<>>
    /\ remotes = <<>>
    /\ vqueue = <<>>
    /\ vevents = <<>>
    /\ InitSuggestUnused
    /\ InitHunksUnused
    /\ InitLock
    /\ missing = {}
    /\ InitQueue
    /\ ~qsync

SpecPR == InitPROnly /\ [][NextPR]_vars

\* The handler h went through PullRequests.Merge in this step, the call
\* failed and the rollback of the state did not.
MergeRefused(h) ==
    /\ merges[h].pc = "merge"
    /\ flast'.op = "PullRequests.Merge"
    /\ flast'.h = h
    /\ flast'.gitHubPR.err
    /\ flast'.fails = ""

\* C32: when the merge call fails, MergePullRequest returns an error and
\* creates no change: GitHub's message as it is for a 405 with GitHub's error
\* body, the wrapped error "failed to merge pr" for every other failure, the
\* one without a response among them; it does not crash.
C32_RefusedMergeIsAnError ==
    [][\A h \in Handlers :
          MergeRefused(h) =>
              /\ merges'[h].pc = "returned"
              /\ merges'[h].ret =
                    IF flast'.gitHubPR.status = 405 /\ flast'.gitHubPR.body
                    THEN GitHubMessage
                    ELSE "failed to merge pr"
              /\ changes' = changes]_vars

\* C33: while a MergePullRequest call is between its precondition checks and
\* the return of the merge call, the stored state of the pull request is
\* merging.
C33_MergingUntilMerged ==
    \A h \in Handlers : merges[h].pc \in {"get", "merge"} => prState = "merging"

\* C34: when the merge call fails, or answers that the pull request was not
\* merged, and the rollback is stored, MergePullRequest returns with the
\* stored state of the pull request being the one it read before the call.
C34_StateRolledBack ==
    [][\A h \in Handlers :
          (/\ merges[h].pc = "merge"
           /\ merges'[h].pc = "returned"
           /\ merges'[h].ret # "failed to update pull request state") =>
              prState' = apis.previousState[h]]_vars

UnmergedUpdate ==
    /\ nmerge' # nmerge
    /\ flast'.op = "UpdatePullRequestFromGitHub"
    /\ ~flast'.gitHubPR.Merged

ArchivedAt(wss) == wss[Get(wss, PR.WorkspaceID)].ArchivedAt

\* What C37 says of a delivery in every reading: nothing changes without the
\* workspace, and the archived status changes only for an importing pull
\* request: open unarchives, closed archives.
UnmergedUpdateArchives ==
    LET h == flast'.h
        state == flast'.gitHubPR.State
    IN IF Get(workspaces, PR.WorkspaceID) = 0
       THEN /\ merges'[h].ret = ErrNil
            /\ UNCHANGED <<workspaces, prState, changes>>
       ELSE /\ (~prImporting \/ state \notin {"open", "closed"}) =>
                   ArchivedAt(workspaces') = ArchivedAt(workspaces)
            /\ (prImporting /\ merges'[h].ret = ErrNil /\ state = "open") =>
                   ArchivedAt(workspaces') = Nil
            /\ (prImporting /\ merges'[h].ret = ErrNil /\ state = "closed") =>
                   ArchivedAt(workspaces') # Nil

UnmergedUpdateClosed ==
    /\ Get(workspaces, PR.WorkspaceID) # 0
    /\ prImporting
    /\ merges'[flast'.h].ret = ErrNil
    /\ flast'.gitHubPR.State = "closed"

====
